---------------------------- MODULE Spec2Model ----------------------------
(***************************************************************************)
(* Model of the glue workflow engine (packages/core/src/engine):           *)
(*   - ParameterResolver  (parameter-resolver.ts)                          *)
(*   - StepRunner         (step-runner.ts)                                 *)
(*   - WorkflowExecutor   (executor.ts)                                    *)
(*                                                                         *)
(* JavaScript values are tagged records [t, v].  A JavaScript string is a  *)
(* sequence of lexical atoms: the three characters "$", "{", "}" and "."   *)
(* are atoms of their own, every other atom is a word that contains none   *)
(* of them, so the regular expression and split('.') of the resolver work  *)
(* on atoms exactly as they work on characters.                            *)
(***************************************************************************)
EXTENDS Integers, Sequences, FiniteSets, TLC

VARIABLES
    pc,            \* position of the call being modelled
    caller,        \* "execute" | "direct" | "resolve": which entry point runs
    workflow,      \* WorkflowDefinition given to execute
    wfInput,       \* input given to execute
    emitter,       \* "none" | "ok" | "faulty": the injected ExecutionEventEmitter
    execution,     \* the WorkflowExecution under construction
    stepIdx,       \* index of the for-of loop over workflow.steps
    emitted,       \* events the emitter accepted, in order
    emitThrew,     \* name of the event whose emit threw, or "" if none did
    curStep,       \* executeWithRetry: its step argument
    curInput,      \* executeWithRetry: its input argument
    curPctx,       \* executeWithRetry: its parameterContext argument
    attempt,       \* executeWithRetry: loop counter
    currentDelay,  \* executeWithRetry: currentDelay
    lastExecution, \* executeWithRetry: lastExecution
    calls,         \* number of executeStep calls made by this executeWithRetry
    waits,         \* delays slept by this executeWithRetry, in order
    started,       \* ids of the steps handed to executeWithRetry, in order
    connInputs,    \* inputs the connectors were called with, in order
    parameters,    \* ParameterResolver.resolve: its parameters argument
    pieces,        \* how the template string of `parameters` was put together
    context,       \* ParameterResolver.resolve: its context argument
    resolved,      \* ParameterResolver.resolve: its result
    given,         \* the parameters and context as the caller built them
    resolvedBefore,\* the result of the caller's previous call of resolve
    resolveCalls,  \* number of calls of resolve the caller has made
    current,       \* which of two concurrent execute calls runs now (0: one call only)
    parked,        \* the local variables of the execute call that is suspended
    registrations, \* a trigger handler's registrations
    pathOrder,     \* the paths of the WebhookHandler's Map, in insertion order
    callback,      \* "set" | "unset": the handler's executeCallback
    invoked,       \* the calls of the execution callback, in order
    request,       \* the arguments of the handler's last call
    response,      \* what that call returned, or the error it threw
    handled,       \* number of calls the handler has served
    job,           \* the worker's job: its data, attempts made and stage
    repository     \* the execution records the ExecutionRepository holds

vars == <<pc, caller, workflow, wfInput, emitter, execution, stepIdx, emitted,
          emitThrew, curStep, curInput, curPctx, attempt, currentDelay,
          lastExecution, calls, waits, started, connInputs, parameters,
          pieces, context, resolved, given, resolvedBefore, resolveCalls,
          current, parked, registrations, pathOrder, callback, invoked, request,
          response, handled, job, repository>>

executorVars == <<workflow, wfInput, emitter, execution, stepIdx, emitted,
                  emitThrew, started>>
runnerVars == <<curStep, curInput, curPctx, attempt, currentDelay,
                lastExecution, calls, waits, connInputs>>
resolverVars == <<parameters, pieces, context, resolved, given, resolvedBefore,
                  resolveCalls>>
otherRunVars == <<current, parked>>
triggerVars == <<registrations, pathOrder, callback, invoked, request, response,
                 handled>>
workerVars == <<job, repository>>

---------------------------------------------------------------------------
(* JavaScript values *)

Undef    == [t |-> "undef", v |-> 0]
Null     == [t |-> "null", v |-> 0]
Str(s)   == [t |-> "str", v |-> s]
Num(n)   == [t |-> "num", v |-> n]
Bool(b)  == [t |-> "bool", v |-> b]
Obj(f)   == [t |-> "obj", v |-> f]
Arr(q)   == [t |-> "arr", v |-> q]

EmptyMap == [k \in {} |-> Undef]
EmptyObj == Obj(EmptyMap)

\* One-key and two-key object literals.
Map1(k, x) == [j \in {k} |-> x]
Map2(k1, x1, k2, x2) == [j \in {k1, k2} |-> IF j = k1 THEN x1 ELSE x2]

\* { ...a, ...b } and Object.assign(a, b) on the key -> value maps.
Spread(a, b) ==
    [k \in DOMAIN a \cup DOMAIN b |-> IF k \in DOMAIN b THEN b[k] ELSE a[k]]

\* JavaScript truthiness of a value (the operand of !, ||, &&, if).
Truthy(x) ==
    CASE x.t = "undef" -> FALSE
      [] x.t = "null"  -> FALSE
      [] x.t = "num"   -> x.v # 0
      [] x.t = "bool"  -> x.v
      [] x.t = "str"   -> x.v # <<>>
      [] OTHER         -> TRUE

\* a || b
OrElse(a, b) == IF Truthy(a) THEN a ELSE b

\* obj[key] for an own key, undefined otherwise.
Get(m, k) == IF k \in DOMAIN m THEN m[k] ELSE Undef


---------------------------------------------------------------------------
(* String conversion and splitting *)

RECURSIVE JoinComma(_)
\* String(value): the string form the replacer callback substitutes.
RECURSIVE String(_)
String(x) ==
    CASE x.t = "str"   -> x.v
      [] x.t = "num"   -> <<ToString(x.v)>>
      [] x.t = "bool"  -> IF x.v THEN <<"true">> ELSE <<"false">>
      [] x.t = "null"  -> <<"null">>
      [] x.t = "undef" -> <<"undefined">>
      [] x.t = "obj"   -> <<"[object Object]">>
      [] x.t = "arr"   -> JoinComma(x.v)
      [] OTHER         -> <<"[object Object]">>

\* Array.prototype.join(','): null and undefined elements give "".
JoinComma(q) ==
    IF q = <<>> THEN <<>>
    ELSE LET h == IF Head(q).t \in {"null", "undef"} THEN <<>> ELSE String(Head(q))
         IN  IF Len(q) = 1 THEN h ELSE h \o <<",">> \o JoinComma(Tail(q))

RECURSIVE SplitFrom(_, _, _)
SplitFrom(s, i, cur) ==
    IF i > Len(s) THEN <<cur>>
    ELSE IF s[i] = "." THEN <<cur>> \o SplitFrom(s, i + 1, <<>>)
    ELSE SplitFrom(s, i + 1, Append(cur, s[i]))

\* path.split('.'): the parts between the dots, each a string.
Split(s) == SplitFrom(s, 1, <<>>)

\* parts.slice(n)
Slice(q, n) == IF n >= Len(q) THEN <<>> ELSE SubSeq(q, n + 1, Len(q))

\* A string (sequence of atoms) taken as a property name.
IsWord(part) == Len(part) = 1

---------------------------------------------------------------------------
(* ParameterResolver *)

\* `part in current` for an object or an array.
HasProp(cur, part) ==
    /\ Truthy(cur)
    /\ cur.t \in {"obj", "arr"}
    /\ IsWord(part)
    /\ IF cur.t = "obj" THEN part[1] \in DOMAIN cur.v
       ELSE \/ part[1] = "length"
            \/ \E i \in 1..Len(cur.v) : part[1] = ToString(i - 1)

\* current[part], read only where HasProp holds.
Prop(cur, part) ==
    IF cur.t = "obj" THEN cur.v[part[1]]
    ELSE IF part[1] = "length" THEN Num(Len(cur.v))
    ELSE cur.v[CHOOSE i \in 1..Len(cur.v) : part[1] = ToString(i - 1)]

RECURSIVE getNestedValue(_, _)
getNestedValue(cur, path) ==
    IF path = <<>> THEN cur
    ELSE IF HasProp(cur, Head(path))
         THEN getNestedValue(Prop(cur, Head(path)), Tail(path))
         ELSE Undef

\* A resolveReference that takes the segment after env as the name however
\* many segments follow it.
resolveReferenceAnyEnv(path, ctx) ==
    LET parts == Split(path) IN
    IF Len(parts) >= 2 /\ parts[1] = <<"workflow">> /\ parts[2] = <<"input">>
    THEN getNestedValue(Obj(ctx.workflowInput), Slice(parts, 2))
    ELSE IF /\ parts[1] = <<"steps">> /\ Len(parts) >= 2
            /\ IsWord(parts[2]) /\ parts[2][1] \in DOMAIN ctx.stepExecutions
            /\ Truthy(ctx.stepExecutions[parts[2][1]])
    THEN getNestedValue(ctx.stepExecutions[parts[2][1]], Slice(parts, 2))
    ELSE IF parts[1] = <<"env">> /\ Len(parts) >= 2
    THEN IF IsWord(parts[2]) THEN Get(ctx.env, parts[2][1]) ELSE Undef
    ELSE Undef

resolveReference(path, ctx) ==
    LET parts == Split(path) IN
    IF Len(parts) >= 2 /\ parts[1] = <<"workflow">> /\ parts[2] = <<"input">>
    THEN getNestedValue(Obj(ctx.workflowInput), Slice(parts, 2))
    ELSE IF /\ parts[1] = <<"steps">> /\ Len(parts) >= 2
            /\ IsWord(parts[2]) /\ parts[2][1] \in DOMAIN ctx.stepExecutions
            /\ Truthy(ctx.stepExecutions[parts[2][1]])
    THEN getNestedValue(ctx.stepExecutions[parts[2][1]], Slice(parts, 2))
    ELSE IF parts[1] = <<"env">> /\ Len(parts) = 2
    THEN IF IsWord(parts[2]) THEN Get(ctx.env, parts[2][1]) ELSE Undef
    ELSE Undef

\* Index of the "}" that ends a match of /\$\{([^}]+)\}/ starting at i,
\* or 0 when the expression does not match at i.
MatchEnd(s, i) ==
    IF i + 3 <= Len(s) /\ s[i] = "$" /\ s[i + 1] = "{" /\ s[i + 2] # "}"
       /\ \E j \in (i + 3)..Len(s) : s[j] = "}"
    THEN CHOOSE j \in (i + 3)..Len(s) :
             s[j] = "}" /\ \A k \in (i + 3)..(j - 1) : s[k] # "}"
    ELSE 0

\* A replacer that blanks a token whose reference is undefined.
ReplacerBlanks(match, path, ctx) ==
    LET value == resolveReference(path, ctx)
    IN  IF value.t # "undef" THEN String(value) ELSE <<>>

\* The replacer callback of interpolateString.
Replacer(match, path, ctx) ==
    LET value == resolveReference(path, ctx)
    IN  IF value.t # "undef" THEN String(value) ELSE match

RECURSIVE ReplaceFrom(_, _, _)
\* template.replace(/\$\{([^}]+)\}/g, replacer), scanning from index i.
ReplaceFrom(s, i, ctx) ==
    IF i > Len(s) THEN <<>>
    ELSE LET j == MatchEnd(s, i) IN
         IF j = 0 THEN <<s[i]>> \o ReplaceFrom(s, i + 1, ctx)
         ELSE Replacer(SubSeq(s, i, j), SubSeq(s, i + 2, j - 1), ctx)
              \o ReplaceFrom(s, j + 1, ctx)

\* An interpolateString that scans its result once more.
interpolateStringAgain(template, ctx) ==
    ReplaceFrom(ReplaceFrom(template, 1, ctx), 1, ctx)

interpolateString(template, ctx) == ReplaceFrom(template, 1, ctx)

RECURSIVE resolveValueStringifies(_, _)
\* A resolveValue that puts every leaf through String().
resolveValueStringifies(value, ctx) ==
    CASE value.t = "str" -> Str(interpolateString(value.v, ctx))
      [] value.t = "arr" ->
            Arr([i \in 1..Len(value.v) |-> resolveValueStringifies(value.v[i], ctx)])
      [] value.t = "obj" ->
            Obj([k \in DOMAIN value.v |-> resolveValueStringifies(value.v[k], ctx)])
      [] OTHER -> Str(String(value))

RECURSIVE resolveValueTyped(_, _)
\* A resolveValue that gives a string made of one token the value the token
\* refers to, with the type it has.
resolveValueTyped(value, ctx) ==
    CASE value.t = "str" ->
            IF /\ MatchEnd(value.v, 1) = Len(value.v) /\ Len(value.v) > 0
               /\ resolveReference(SubSeq(value.v, 3, Len(value.v) - 1), ctx) # Undef
            THEN resolveReference(SubSeq(value.v, 3, Len(value.v) - 1), ctx)
            ELSE Str(interpolateString(value.v, ctx))
      [] value.t = "arr" ->
            Arr([i \in 1..Len(value.v) |-> resolveValueTyped(value.v[i], ctx)])
      [] value.t = "obj" ->
            Obj([k \in DOMAIN value.v |-> resolveValueTyped(value.v[k], ctx)])
      [] OTHER -> value

RECURSIVE resolveValue(_, _)
resolveValue(value, ctx) ==
    CASE value.t = "str" -> Str(interpolateString(value.v, ctx))
      [] value.t = "arr" ->
            Arr([i \in 1..Len(value.v) |-> resolveValue(value.v[i], ctx)])
      [] value.t = "obj" ->
            Obj([k \in DOMAIN value.v |-> resolveValue(value.v[k], ctx)])
      [] OTHER -> value

\* ParameterResolver.resolve on the key -> value map of its argument.
resolve(params, ctx) == [k \in DOMAIN params |-> resolveValue(params[k], ctx)]

\* A resolve that writes each resolved value back into its argument.
ParametersResolvedInPlace(params, ctx) == resolve(params, ctx)

\* The parameters object and the context once resolve has returned: resolve
\* and the methods it calls only read them, and write to objects of their own.
ParametersAfter(params, ctx) == params
ContextAfter(params, ctx) == ctx

\* process.env of the process the engine runs in.
ProcessEnv == Map1("HOME", Str(<<"/root">>))

\* A buildContext without the test of stepExecution.output: every record
\* sets its entry.
buildContextOfAll(workflowInput, exec) ==
    LET n == Len(exec.stepExecutions)
        ids == {exec.stepExecutions[i].stepId : i \in 1..n}
        lastOf(id) == CHOOSE i \in 1..n :
                         /\ exec.stepExecutions[i].stepId = id
                         /\ \A j \in 1..n :
                               exec.stepExecutions[j].stepId = id => j <= i
    IN  [workflowInput |-> workflowInput,
         stepExecutions |-> [id \in ids |-> exec.stepExecutions[lastOf(id)].output],
         env |-> ProcessEnv]

\* stepExecutions.set(stepId, output) for every record with an output, in
\* trace order: the last record of a step id is the one that stays.
buildContext(workflowInput, exec) ==
    LET withOutput == {i \in 1..Len(exec.stepExecutions) :
                          Truthy(exec.stepExecutions[i].output)}
        ids == {exec.stepExecutions[i].stepId : i \in withOutput}
        lastOf(id) == CHOOSE i \in withOutput :
                         /\ exec.stepExecutions[i].stepId = id
                         /\ \A j \in withOutput :
                               exec.stepExecutions[j].stepId = id => j <= i
    IN  [workflowInput |-> workflowInput,
         stepExecutions |-> [id \in ids |-> exec.stepExecutions[lastOf(id)].output],
         env |-> ProcessEnv]

---------------------------------------------------------------------------
(* Connectors and JsonTransformer *)

\* Connector types the StepRunner constructor registers.
RegisteredConnectors ==
    {"http", "postgres", "openai", "smtp", "s3", "javascript", "graphql"}

\* The scripts given to the javascript connector.
SumCode   == <<"return {sum: a+b};">>
ThrowCode == <<"throw new Error(\"Test error\");">>

ErrorOf(message) == Obj(Map1("message", Str(message)))

\* A ConnectorResult, or a thrown exception (threw).
Success(data)    == [threw |-> FALSE, success |-> TRUE, data |-> data, error |-> Undef]
Failure(message) == [threw |-> FALSE, success |-> FALSE, data |-> Undef,
                     error |-> ErrorOf(message)]
Thrown(message)  == [threw |-> TRUE, success |-> FALSE, data |-> Undef,
                     error |-> ErrorOf(message)]

\* JavaScriptConnector.execute: the input must carry a non-empty string
\* `code` and, when present, an object `context`; the script then runs in a
\* vm context with the context's entries as its globals.  What a script
\* throws is an error of the vm context, which is no instance of the
\* connector's Error, so the catch block reports 'Unknown error'.
JavaScriptExecute(input) ==
    LET code == Get(input, "code")
        ctx  == Get(input, "context")
    IN  IF \/ code.t # "str" \/ code.v = <<>>
           \/ ctx.t \notin {"undef", "obj"}
        THEN Failure(<<"Invalid input">>)
        ELSE IF code.v = SumCode
        THEN LET g == IF ctx.t = "obj" THEN ctx.v ELSE EmptyMap IN
             IF Get(g, "a").t = "num" /\ Get(g, "b").t = "num"
             THEN Success(Obj(Map1("sum", Num(g["a"].v + g["b"].v))))
             ELSE Failure(<<"Unknown error">>)
        ELSE Failure(<<"Unknown error">>)

\* What the outside world makes of a call of one of the other connectors:
\* it answers, answers success:false, or the call throws.
Outcomes == {"ok", "fail", "throw"}

ExternalExecute(stepId, outcome) ==
    CASE outcome = "ok"   -> Success(Str(<<stepId>>))
      [] outcome = "fail" -> Failure(<<"Request failed">>)
      [] OTHER            -> Thrown(<<"socket hang up">>)

ConnectorExecute(connectorType, stepId, input, outcome) ==
    IF connectorType = "javascript" THEN JavaScriptExecute(input)
    ELSE ExternalExecute(stepId, outcome)

\* JsonTransformer.getValueByPath
getValueByPath(obj, path) ==
    IF ~Truthy(obj) \/ obj.t \notin {"obj", "arr"} THEN Undef
    ELSE getNestedValue(obj, Split(path))

RECURSIVE setValueByPath(_, _, _)
\* JsonTransformer.setValueByPath on the key -> value map, parts = path.split('.')
setValueByPath(m, parts, value) ==
    LET k == IF IsWord(Head(parts)) THEN Head(parts)[1] ELSE "" IN
    IF Len(parts) = 1 THEN Spread(m, Map1(k, value))
    ELSE LET inner == IF k \in DOMAIN m /\ m[k].t = "obj" THEN m[k].v ELSE EmptyMap
         IN  Spread(m, Map1(k, Obj(setValueByPath(inner, Tail(parts), value))))

RECURSIVE transformKeys(_, _, _, _)
transformKeys(input, mapping, keys, result) ==
    IF keys = {} THEN result
    ELSE LET k == CHOOSE x \in keys : TRUE
             r == setValueByPath(result, <<<<k>>>>,
                                 getValueByPath(input, mapping[k].v))
         IN  transformKeys(input, mapping, keys \ {k}, r)

\* JsonTransformer.transform for mappings whose output keys are plain names.
transform(input, mapping) ==
    transformKeys(input, mapping, DOMAIN mapping, EmptyMap)

---------------------------------------------------------------------------
(* StepRunner *)

DefaultMaxAttempts == 1
DefaultDelayMs == 1000
DefaultBackoffMultiplier == 1

Date == [t |-> "date", v |-> 0]

\* The value of an expression of executeStep's try block, or what it threw.
Return(output) == [threw |-> FALSE, output |-> output, message |-> <<>>]
Throw(message) == [threw |-> TRUE, output |-> Undef, message |-> message]

\* (config as any).connectorType || 'http'
ConnectorTypeOf(config) ==
    LET c == OrElse(Get(config, "connectorType"), Str(<<"http">>))
    IN  IF c.t = "str" /\ IsWord(c.v) THEN c.v[1] ELSE ""

\* An executeConnector that does not look at result.success.
executeConnectorIgnoresSuccess(config, stepId, input, outcome) ==
    LET connectorType == ConnectorTypeOf(config) IN
    IF connectorType \notin RegisteredConnectors
    THEN Throw(<<"Connector not found: ", connectorType>>)
    ELSE LET result == ConnectorExecute(connectorType, stepId, input, outcome) IN
         IF result.threw THEN Throw(result.error.v["message"].v)
         ELSE Return(Obj(Map1("data", result.data)))

executeConnector(config, stepId, input, outcome) ==
    LET connectorType == ConnectorTypeOf(config) IN
    IF connectorType \notin RegisteredConnectors
    THEN Throw(<<"Connector not found: ", connectorType>>)
    ELSE LET result == ConnectorExecute(connectorType, stepId, input, outcome) IN
         IF result.threw THEN Throw(result.error.v["message"].v)
         ELSE IF ~result.success
         THEN Throw(OrElse(Get(result.error.v, "message"),
                           Str(<<"Connector execution failed">>)).v)
         ELSE Return(Obj(Map1("data", result.data)))

\* getValueByPath calls path.split: a mapping value that is no string makes
\* it throw a TypeError.
executeTransformer(config, input) ==
    LET mapping == OrElse(Get(config, "mapping"), EmptyObj)
    IN  IF \E k \in DOMAIN mapping.v : mapping.v[k].t # "str"
        THEN Throw(<<"path", ".", "split is not a function">>)
        ELSE Return(Obj(transform(Obj(input), mapping.v)))

\* fieldValue > value and fieldValue < value, on numbers; a comparison with
\* undefined or between a number and a word is false.
Greater(a, b) == a.t = "num" /\ b.t = "num" /\ a.v > b.v
Less(a, b)    == a.t = "num" /\ b.t = "num" /\ a.v < b.v

\* String(a).includes(String(b)) on atoms.
Includes(a, b) ==
    LET x == String(a)
        y == String(b)
    IN  \E i \in 0..Len(x) : i + Len(y) <= Len(x) /\ SubSeq(x, i + 1, i + Len(y)) = y

\* a === b: primitives by value, objects and arrays by identity (the input's
\* values and the config's values are never the same object).
StrictEq(a, b) == a.t = b.t /\ a.t \notin {"obj", "arr"} /\ a.v = b.v

\* An evaluateCondition with cases for the operators gte and lte.
evaluateConditionWithGte(condition, input) ==
    IF ~Truthy(condition) THEN TRUE
    ELSE LET field == Get(condition.v, "field")
             operator == Get(condition.v, "operator")
             value == Get(condition.v, "value")
             fieldValue == IF field.t = "str" /\ IsWord(field.v)
                           THEN Get(input, field.v[1]) ELSE Undef
             op == IF operator.t = "str" /\ IsWord(operator.v)
                   THEN operator.v[1] ELSE ""
         IN  CASE op = "eq" -> StrictEq(fieldValue, value)
               [] op = "ne" -> ~StrictEq(fieldValue, value)
               [] op = "gt" -> Greater(fieldValue, value)
               [] op = "lt" -> Less(fieldValue, value)
               [] op = "gte" -> Greater(fieldValue, value) \/ StrictEq(fieldValue, value)
               [] op = "lte" -> Less(fieldValue, value) \/ StrictEq(fieldValue, value)
               [] op = "contains" -> Includes(fieldValue, value)
               [] OTHER -> TRUE

evaluateCondition(condition, input) ==
    IF ~Truthy(condition) THEN TRUE
    ELSE LET field == Get(condition.v, "field")
             operator == Get(condition.v, "operator")
             value == Get(condition.v, "value")
             fieldValue == IF field.t = "str" /\ IsWord(field.v)
                           THEN Get(input, field.v[1]) ELSE Undef
             op == IF operator.t = "str" /\ IsWord(operator.v)
                   THEN operator.v[1] ELSE ""
         IN  CASE op = "eq" -> StrictEq(fieldValue, value)
               [] op = "ne" -> ~StrictEq(fieldValue, value)
               [] op = "gt" -> Greater(fieldValue, value)
               [] op = "lt" -> Less(fieldValue, value)
               [] op = "contains" -> Includes(fieldValue, value)
               [] OTHER -> TRUE

executeCondition(config, input) ==
    Return(Obj(Map1("conditionMet",
                    Bool(evaluateCondition(Get(config, "condition"), input)))))

RECURSIVE TokenPaths(_, _)
\* The paths of the tokens the regular expression finds in s from index i on.
TokenPaths(s, i) ==
    IF i > Len(s) THEN {}
    ELSE LET j == MatchEnd(s, i) IN
         IF j = 0 THEN TokenPaths(s, i + 1)
         ELSE {SubSeq(s, i + 2, j - 1)} \cup TokenPaths(s, j + 1)

RECURSIVE StringsOf(_)
\* The strings resolveValue interpolates in a value.
StringsOf(value) ==
    CASE value.t = "str" -> {value.v}
      [] value.t = "arr" -> UNION {StringsOf(value.v[i]) : i \in 1..Len(value.v)}
      [] value.t = "obj" -> UNION {StringsOf(value.v[k]) : k \in DOMAIN value.v}
      [] OTHER -> {}

\* resolve throws a TypeError where context.stepExecutions has no get method
\* (a context whose Map became a plain object) and a token reads a step output.
resolveThrows(params, pctx) ==
    /\ pctx.t = "plainctx"
    /\ \E str \in StringsOf(Obj(params)) : \E path \in TokenPaths(str, 1) :
          LET parts == Split(path) IN parts[1] = <<"steps">> /\ Len(parts) >= 2

\* Whether one of the two resolve calls of executeStep throws.
ResolutionThrows(step, pctx) ==
    \/ resolveThrows(step.config, pctx)
    \/ Truthy(step.parameters) /\ resolveThrows(step.parameters.v, pctx)

\* The config and input executeStep hands to the step's handler.
ResolvedConfig(step, pctx) ==
    IF pctx.t # "undef" THEN resolve(step.config, pctx.v) ELSE step.config

\* A merge in which the input's keys override the parameters.
ResolvedInputUnderInput(step, input, pctx) ==
    IF Truthy(step.parameters) /\ pctx.t # "undef"
    THEN Spread(resolve(step.parameters.v, pctx.v), input)
    ELSE input

ResolvedInput(step, input, pctx) ==
    IF Truthy(step.parameters) /\ pctx.t # "undef"
    THEN Spread(input, resolve(step.parameters.v, pctx.v))
    ELSE input

\* A switch whose default branch lets the step pass with an empty output.
DispatchSkipsUnknown(step, config, input, outcome) ==
    CASE step.type = "connector"   -> executeConnector(config, step.id, input, outcome)
      [] step.type = "transformer" -> executeTransformer(config, input)
      [] step.type = "condition"   -> executeCondition(config, input)
      [] OTHER -> Return(EmptyObj)

\* The switch on step.type.
Dispatch(step, config, input, outcome) ==
    CASE step.type = "connector"   -> executeConnector(config, step.id, input, outcome)
      [] step.type = "transformer" -> executeTransformer(config, input)
      [] step.type = "condition"   -> executeCondition(config, input)
      [] OTHER -> Throw(<<"Unsupported step type: ", step.type>>)

\* The try block of executeStep: what it evaluates to, or what it threw.
TryBlock(step, input, pctx, outcome) ==
    IF ResolutionThrows(step, pctx)
    THEN Throw(<<"context", ".", "stepExecutions", ".", "get is not a function">>)
    ELSE Dispatch(step, ResolvedConfig(step, pctx),
                  ResolvedInput(step, input, pctx), outcome)

\* An executeStep whose catch block records the error and nothing else.
executeStepLeavesRunning(step, input, pctx, outcome) ==
    LET r == TryBlock(step, input, pctx, outcome)
    IN  [stepId |-> step.id,
         status |-> IF r.threw THEN "running" ELSE "completed",
         input |-> Obj(input),
         output |-> r.output,
         error |-> IF r.threw
                   THEN Obj(Map2("message", Str(r.message),
                                 "details", ErrorOf(r.message)))
                   ELSE Undef,
         startedAt |-> Date,
         completedAt |-> IF r.threw THEN Undef ELSE Date,
         attempts |-> 1]

\* StepRunner.executeStep: one attempt, as the StepExecution it returns.
executeStep(step, input, pctx, outcome) ==
    LET r == TryBlock(step, input, pctx, outcome)
    IN  [stepId |-> step.id,
         status |-> IF r.threw THEN "failed" ELSE "completed",
         input |-> Obj(input),
         output |-> r.output,
         error |-> IF r.threw
                   THEN Obj(Map2("message", Str(r.message),
                                 "details", ErrorOf(r.message)))
                   ELSE Undef,
         startedAt |-> Date,
         completedAt |-> Date,
         attempts |-> 1]

\* Whether this attempt reaches connector.execute, and with which input.
CallsConnector(step, pctx) ==
    /\ ~ResolutionThrows(step, pctx)
    /\ step.type = "connector"
    /\ ConnectorTypeOf(ResolvedConfig(step, pctx)) \in RegisteredConnectors

\* step.retryPolicy?.<field> || <default>
PolicyField(step, field, default) ==
    LET p == step.retryPolicy IN
    OrElse(IF p.t = "obj" THEN Get(p.v, field) ELSE Undef, Num(default)).v

---------------------------------------------------------------------------
(* StepRunner.executeWithRetry, one action per stretch between two awaits *)

\* Outcomes the outside world can give this step's handler.
OutcomesFor(step) ==
    IF step.type = "connector"
       /\ ConnectorTypeOf(step.config) \in RegisteredConnectors \ {"javascript"}
    THEN Outcomes ELSE {"ok"}

\* The call executeWithRetry(step, input, context, parameterContext) up to
\* its first await.
EnterRetry(step, input, pctx) ==
    /\ curStep' = step
    /\ curInput' = input
    /\ curPctx' = pctx
    /\ attempt' = 1
    /\ currentDelay' = PolicyField(step, "delayMs", DefaultDelayMs)
    /\ lastExecution' = Null
    /\ calls' = 0
    /\ waits' = <<>>
    /\ pc' = IF 1 <= PolicyField(step, "maxAttempts", DefaultMaxAttempts)
             THEN "attempt" ELSE "retdone"

\* AfterAttempt with the loop ended one attempt early.
AfterAttemptOneShort(se, n, maxAttempts) ==
    IF se.status = "completed" THEN "return"
    ELSE IF n + 1 < maxAttempts THEN "sleep"
    ELSE "exit"

\* AfterAttempt without the early return.
AfterAttemptNoReturn(se, n, maxAttempts) ==
    IF n < maxAttempts THEN "sleep" ELSE "exit"

\* What follows an attempt: "return" when it completed, "sleep" before another
\* attempt, "exit" when the loop condition attempt <= maxAttempts ends it.
AfterAttempt(se, n, maxAttempts) ==
    IF se.status = "completed" THEN "return"
    ELSE IF n < maxAttempts THEN "sleep"
    ELSE "exit"

\* One pass of the loop body: executeStep, then return, wait or fall out.
Attempt ==
    /\ pc = "attempt"
    /\ \E outcome \in OutcomesFor(curStep) :
         LET se == [executeStep(curStep, curInput, curPctx, outcome)
                       EXCEPT !.attempts = attempt]
             maxAttempts == PolicyField(curStep, "maxAttempts", DefaultMaxAttempts)
         IN  /\ lastExecution' = se
             /\ calls' = calls + 1
             /\ connInputs' =
                  IF CallsConnector(curStep, curPctx)
                  THEN Append(connInputs, ResolvedInput(curStep, curInput, curPctx))
                  ELSE connInputs
             /\ CASE AfterAttempt(se, attempt, maxAttempts) = "return" ->
                        pc' = "retdone" /\ attempt' = attempt
                  [] AfterAttempt(se, attempt, maxAttempts) = "sleep" ->
                        pc' = "sleep" /\ attempt' = attempt
                  [] OTHER ->
                        pc' = "retdone" /\ attempt' = attempt + 1
    /\ UNCHANGED <<caller, curStep, curInput, curPctx, currentDelay, waits,
                   executorVars, resolverVars, otherRunVars, triggerVars, workerVars>>

\* A delay that stays what it is from one wait to the next.
NextDelaySame(delay, backoffMultiplier) == delay

\* currentDelay *= backoffMultiplier
NextDelay(delay, backoffMultiplier) == delay * backoffMultiplier

\* await this.sleep(currentDelay); currentDelay *= backoffMultiplier; attempt++
Sleep ==
    /\ pc = "sleep"
    /\ waits' = Append(waits, currentDelay)
    /\ currentDelay' =
         NextDelay(currentDelay,
                   PolicyField(curStep, "backoffMultiplier", DefaultBackoffMultiplier))
    /\ attempt' = attempt + 1
    /\ pc' = "attempt"
    /\ UNCHANGED <<caller, curStep, curInput, curPctx, lastExecution, calls,
                   connInputs, executorVars, resolverVars, otherRunVars, triggerVars, workerVars>>

---------------------------------------------------------------------------
(* WorkflowExecutor *)

\* execution.stepExecutions.find(se => se.stepId === dependencyId)
\* as the index of the first match, 0 when there is none.
FindExecution(stepExecutions, dependencyId) ==
    IF \E i \in 1..Len(stepExecutions) : stepExecutions[i].stepId = dependencyId
    THEN CHOOSE i \in 1..Len(stepExecutions) :
            /\ stepExecutions[i].stepId = dependencyId
            /\ \A j \in 1..(i - 1) : stepExecutions[j].stepId # dependencyId
    ELSE 0

RECURSIVE MergeDependencies(_, _, _)
RECURSIVE MergeKeepsExisting(_, _, _)
RECURSIVE MergeStopsAtMissing(_, _, _)
\* A merge that ends at the first dependency without a recorded output.
MergeStopsAtMissing(stepExecutions, deps, input) ==
    IF deps = <<>> THEN input
    ELSE LET found == FindExecution(stepExecutions, Head(deps)) IN
         IF found # 0 /\ Truthy(stepExecutions[found].output)
         THEN MergeStopsAtMissing(stepExecutions, Tail(deps),
                                  Spread(input, stepExecutions[found].output.v))
         ELSE input

\* A merge in which a key that is already present is not overwritten.
MergeKeepsExisting(stepExecutions, deps, input) ==
    IF deps = <<>> THEN input
    ELSE LET found == FindExecution(stepExecutions, Head(deps))
             merged == IF found # 0 /\ Truthy(stepExecutions[found].output)
                       THEN Spread(stepExecutions[found].output.v, input)
                       ELSE input
         IN  MergeKeepsExisting(stepExecutions, Tail(deps), merged)

\* The for-of loop of getStepInput over step.dependsOn.
MergeDependencies(stepExecutions, deps, input) ==
    IF deps = <<>> THEN input
    ELSE LET found == FindExecution(stepExecutions, Head(deps))
             merged == IF found # 0 /\ Truthy(stepExecutions[found].output)
                       THEN Spread(input, stepExecutions[found].output.v)
                       ELSE input
         IN  MergeDependencies(stepExecutions, Tail(deps), merged)

\* getStepInput throws when step.dependsOn is neither absent nor iterable.
getStepInputThrows(step) == step.dependsOn.t \notin {"undef", "arr"}

getStepInput(exec, step, workflowInput) ==
    IF ~Truthy(step.dependsOn) \/ step.dependsOn.v = <<>>
    THEN workflowInput
    ELSE MergeDependencies(exec.stepExecutions, step.dependsOn.v, workflowInput)

\* The workflow input after a getStepInput that merges into the object it
\* was given.
WorkflowInputMergedInto(exec, step, workflowInput) ==
    getStepInput(exec, step, workflowInput)

\* The caller's input object once getStepInput has returned: the merge is
\* done on `{ ...workflowInput }`, a new object.
WorkflowInputAfter(exec, step, workflowInput) == workflowInput

\* A buildOutput that takes the output of the last step that has one.
buildOutputOfLastWithOutput(exec) ==
    LET S == {i \in 1..Len(exec.stepExecutions) : Truthy(exec.stepExecutions[i].output)}
    IN  IF S = {} THEN EmptyObj
        ELSE exec.stepExecutions[CHOOSE i \in S : \A j \in S : j <= i].output

\* A buildOutput without the fallback to the empty object.
buildOutputOrUndefined(exec) ==
    IF exec.stepExecutions = <<>> THEN Undef
    ELSE exec.stepExecutions[Len(exec.stepExecutions)].output

buildOutput(exec) ==
    IF exec.stepExecutions = <<>> THEN EmptyObj
    ELSE OrElse(exec.stepExecutions[Len(exec.stepExecutions)].output, EmptyObj)

\* workflow.errorHandling?.onError || 'stop'
OnError(wf) ==
    LET e == wf.errorHandling IN
    OrElse(IF e.t = "obj" THEN Get(e.v, "onError") ELSE Undef, Str(<<"stop">>)).v[1]

\* ShouldStop with 'stop' honoured only where it is written out.
ShouldStopOnlyExplicit(stepExecution, wf) ==
    /\ stepExecution.status = "failed"
    /\ wf.errorHandling.t = "obj"
    /\ Get(wf.errorHandling.v, "onError") = Str(<<"stop">>)

\* ShouldStop with every policy but 'continue' taken as 'stop'.
ShouldStopUnlessContinue(stepExecution, wf) ==
    stepExecution.status = "failed" /\ OnError(wf) # "continue"

\* ShouldStop that also stops at a condition that is not met.
ShouldStopAtUnmet(stepExecution, wf) ==
    \/ stepExecution.status = "failed" /\ OnError(wf) = "stop"
    \/ /\ stepExecution.output.t = "obj"
       /\ Get(stepExecution.output.v, "conditionMet") = Bool(FALSE)

\* if (stepExecution.status === 'failed') { ... if (errorHandling === 'stop')
ShouldStop(stepExecution, wf) ==
    stepExecution.status = "failed" /\ OnError(wf) = "stop"

\* Whether an emit may throw: only a faulty emitter's does.
EmitThrows == IF emitter = "faulty" THEN BOOLEAN ELSE {FALSE}

\* What a listener gets with an event: its name, the step id or the
\* StepExecution of the payload, and the execution as it is at that moment.
Event(name, stepId, stepExecution, exec) ==
    [name |-> name, stepId |-> stepId, stepExecution |-> stepExecution,
     execution |-> exec]

\* An executor that emits no step.started event.
EmittedButStepStarted(event) ==
    IF emitter = "none" \/ event.name = "step.started" THEN emitted
    ELSE Append(emitted, event)

\* emitEvent(event, data) when emit does not throw.
Emitted(event) == IF emitter = "none" THEN emitted ELSE Append(emitted, event)

\* A catch block that records the error and leaves the status as it is.
CaughtKeepsStatus(exec, message) ==
    [exec EXCEPT !.error = Obj(Map2("message", Str(message),
                                    "details", ErrorOf(message)))]

\* A catch block that marks the execution failed and records no error.
CaughtDropsError(exec, message) == [exec EXCEPT !.status = "failed"]

\* The catch block of execute.
Caught(exec, message) ==
    [exec EXCEPT !.status = "failed",
                 !.error = Obj(Map2("message", Str(message),
                                    "details", ErrorOf(message)))]

\* execute up to the start of the loop: the execution record and the
\* execution.started event, which is emitted outside the try block.
Begin ==
    /\ caller = "execute" /\ pc = "idle"
    /\ execution' = [status |-> "running", input |-> Obj(wfInput),
                     stepExecutions |-> <<>>, output |-> Undef,
                     error |-> Undef, completedAt |-> Undef]
    /\ \E throws \in EmitThrows :
         IF throws
         THEN /\ pc' = "rejected" /\ emitThrew' = "execution.started"
              /\ UNCHANGED <<emitted, stepIdx>>
         ELSE /\ pc' = "loop" /\ stepIdx' = 1
              /\ emitted' = Emitted(Event("execution.started", "", Null, execution'))
              /\ UNCHANGED emitThrew
    /\ UNCHANGED <<caller, workflow, wfInput, emitter, started, runnerVars,
                   resolverVars, otherRunVars, triggerVars, workerVars>>

\* The head of one loop iteration: step.started, getStepInput and the call of
\* executeWithRetry; or the end of the loop.
LoopHead ==
    /\ caller = "execute" /\ pc = "loop"
    /\ IF stepIdx > Len(workflow.steps)
       THEN /\ pc' = "finalize"
            /\ UNCHANGED <<wfInput, execution, emitted, emitThrew, started, runnerVars>>
       ELSE LET step == workflow.steps[stepIdx] IN
            \E throws \in EmitThrows :
              IF throws
              THEN /\ execution' = Caught(execution, <<"emit failed">>)
                   /\ emitThrew' = "step.started"
                   /\ pc' = "finally"
                   /\ UNCHANGED <<wfInput, emitted, started, runnerVars>>
              ELSE IF getStepInputThrows(step)
              THEN /\ execution' = Caught(execution, <<"step.dependsOn is not iterable">>)
                   /\ emitted' = Emitted(Event("step.started", step.id, Null, execution))
                   /\ pc' = "finally"
                   /\ UNCHANGED <<wfInput, emitThrew, started, runnerVars>>
              ELSE /\ emitted' = Emitted(Event("step.started", step.id, Null, execution))
                   /\ started' = Append(started, step.id)
                   /\ EnterRetry(step, getStepInput(execution, step, wfInput), Undef)
                   /\ wfInput' = WorkflowInputAfter(execution, step, wfInput)
                   /\ UNCHANGED <<execution, emitThrew, connInputs>>
    /\ UNCHANGED <<caller, workflow, emitter, stepIdx, resolverVars, otherRunVars, triggerVars, workerVars>>

\* Push with the record put in front of the trace.
PushInFront(exec, stepExecution) ==
    [exec EXCEPT !.stepExecutions = <<stepExecution>> \o @]

\* execution.stepExecutions.push(stepExecution)
Push(exec, stepExecution) ==
    [exec EXCEPT !.stepExecutions = Append(@, stepExecution)]

\* The rest of the iteration once executeWithRetry has returned: push,
\* step.completed, and the error-handling decision.
StepDone ==
    /\ caller = "execute" /\ pc = "retdone"
    /\ LET step == workflow.steps[stepIdx]
           pushed == Push(execution, lastExecution)
       IN  \E throws \in EmitThrows :
             IF throws
             THEN /\ execution' = Caught(pushed, <<"emit failed">>)
                  /\ emitThrew' = "step.completed"
                  /\ pc' = "finally"
                  /\ UNCHANGED <<emitted, stepIdx>>
             ELSE /\ emitted' = Emitted(Event("step.completed", step.id, lastExecution, pushed))
                  /\ UNCHANGED emitThrew
                  /\ IF ShouldStop(lastExecution, workflow)
                     THEN /\ execution' =
                               [pushed EXCEPT
                                  !.status = "failed",
                                  !.error = Obj([k \in {"message", "stepId", "details"} |->
                                      CASE k = "message" ->
                                               Str(<<"Step ", step.id, " failed">>)
                                        [] k = "stepId" -> Str(<<step.id>>)
                                        [] OTHER -> lastExecution.error])]
                          /\ pc' = "finalize"
                          /\ UNCHANGED stepIdx
                     ELSE /\ execution' = pushed
                          /\ stepIdx' = stepIdx + 1
                          /\ pc' = "loop"
    /\ UNCHANGED <<caller, workflow, wfInput, emitter, started, runnerVars,
                   resolverVars, otherRunVars, triggerVars, workerVars>>

\* After the loop: the final status and output.
Finalize ==
    /\ caller = "execute" /\ pc = "finalize"
    /\ execution' = IF execution.status = "running"
                    THEN [execution EXCEPT !.status = "completed",
                                           !.output = buildOutput(execution)]
                    ELSE execution
    /\ pc' = "finally"
    /\ UNCHANGED <<caller, workflow, wfInput, emitter, stepIdx, emitted,
                   emitThrew, started, runnerVars, resolverVars, otherRunVars, triggerVars, workerVars>>

\* After the try/catch: completedAt, execution.completed (outside the try
\* block) and the return.
Finish ==
    /\ caller = "execute" /\ pc = "finally"
    /\ execution' = [execution EXCEPT !.completedAt = Date]
    /\ \E throws \in EmitThrows :
         IF throws
         THEN /\ pc' = "rejected" /\ emitThrew' = "execution.completed"
              /\ UNCHANGED emitted
         ELSE /\ pc' = "returned"
              /\ emitted' = Emitted(Event("execution.completed", "", Null, execution'))
              /\ UNCHANGED emitThrew
    /\ UNCHANGED <<caller, workflow, wfInput, emitter, stepIdx, started,
                   runnerVars, resolverVars, otherRunVars, triggerVars, workerVars>>

---------------------------------------------------------------------------
(* Inputs of the resolver runs *)

MaxSegs == 3

\* Words a reference path is made of: the three namespaces, "input", and
\* names that are keys, step ids or environment variables of the contexts.
Segs == {"workflow", "input", "steps", "env", "s1", "k"}

RECURSIVE PathsOfLen(_)
\* Dotted paths of exactly n segments, as strings.
PathsOfLen(n) ==
    IF n = 1 THEN {<<w>> : w \in Segs}
    ELSE {p \o <<".", w>> : p \in PathsOfLen(n - 1), w \in Segs}

Paths == UNION {PathsOfLen(n) : n \in 1..MaxSegs}

\* A piece of a template: literal text, or a ${path} token.
Lit(text) == [kind |-> "lit", text |-> text]
Tok(path) == [kind |-> "tok", text |-> path]
PieceText(p) ==
    IF p.kind = "tok" THEN <<"$", "{">> \o p.text \o <<"}">> ELSE p.text

RECURSIVE Flatten(_)
Flatten(ps) == IF ps = <<>> THEN <<>> ELSE PieceText(Head(ps)) \o Flatten(Tail(ps))

\* What surrounds the token under test: nothing, plain text, another token
\* that resolves in RichContext, another token that resolves nowhere, and
\* text that holds stray "$", "{" and "}".
Prefixes == {Lit(<<>>), Lit(<<"x=">>), Tok(<<"env", ".", "k">>),
             Tok(<<"other", ".", "k">>), Lit(<<"$", "{">>)}
Suffixes == {Lit(<<>>), Lit(<<"!">>), Tok(<<"workflow", ".", "input", ".", "k">>),
             Tok(<<"steps", ".", "s2", ".", "k">>), Lit(<<"}">>)}

Templates == {<<a, Tok(p), b>> : a \in Prefixes, p \in Paths, b \in Suffixes}

\* A context in which each namespace holds values of several types.
RichContext ==
    [workflowInput |->
        Spread(Spread(Map2("k", Str(<<"v">>),
                           "s1", Obj(Map2("k", Num(7), "input", Null))),
                      Map2("input", Num(7), "env", Bool(TRUE))),
               Map1("steps", Str(<<"$", "{", "env", ".", "k", "}">>))),
     stepExecutions |->
        Map1("s1", Obj(Spread(Map2("k", Obj(Map1("k", Bool(TRUE))),
                                   "s1", Arr(<<Str(<<"a">>), Num(2)>>)),
                              Map1("env", Str(<<"$", "{", "workflow", ".", "input",
                                                ".", "k", "}">>))))),
     env |-> Map2("k", Str(<<"e">>),
                  "s1", Str(<<"$", "{", "env", ".", "k", "}">>))]

EmptyContext ==
    [workflowInput |-> EmptyMap, stepExecutions |-> EmptyMap, env |-> EmptyMap]

Contexts == {RichContext, EmptyContext}

\* Parameter objects that carry the template string at the top level, in a
\* nested object and in an array, beside non-string scalars.
ParamsFlat(tmpl) == Map1("msg", Str(tmpl))
ParamsDeep(tmpl) ==
    Map2("msg", Str(tmpl),
         "o", Obj(Map2("in", Arr(<<Str(tmpl), Num(1), Null>>), "b", Bool(FALSE))))

---------------------------------------------------------------------------
(* Values the variables of a part hold while another part runs *)

NoStep == [id |-> "", type |-> "", config |-> EmptyMap, parameters |-> Undef,
           retryPolicy |-> Undef, dependsOn |-> Undef]
NoWorkflow == [id |-> "", steps |-> <<>>, errorHandling |-> Undef]
NoExecution == [status |-> "", input |-> Undef, stepExecutions |-> <<>>,
                output |-> Undef, error |-> Undef, completedAt |-> Undef]

ExecutorIdle ==
    /\ workflow = NoWorkflow /\ wfInput = Undef /\ emitter = "none"
    /\ execution = NoExecution /\ stepIdx = 0 /\ emitted = <<>>
    /\ emitThrew = "" /\ started = <<>>

RunnerIdle ==
    /\ curStep = NoStep /\ curInput = EmptyMap /\ curPctx = Undef
    /\ attempt = 0 /\ currentDelay = 0 /\ lastExecution = Null
    /\ calls = 0 /\ waits = <<>> /\ connInputs = <<>>

ResolverIdle ==
    /\ parameters = Undef /\ pieces = <<>> /\ context = Undef /\ resolved = Undef
    /\ given = Undef /\ resolvedBefore = Undef /\ resolveCalls = 0

\* A single call: no other call is suspended.
SingleRun == current = 0 /\ parked = Undef

\* No trigger handler takes part.
TriggersIdle ==
    /\ registrations = EmptyMap /\ pathOrder = <<>>
    /\ callback = "unset" /\ invoked = <<>>
    /\ request = Undef /\ response = Undef /\ handled = 0

\* No worker takes part.
WorkerIdle == job = Undef /\ repository = <<>>

---------------------------------------------------------------------------
(* Runs of ParameterResolver.resolve *)

InitResolve ==
    /\ pc = "call" /\ caller = "resolve"
    /\ ExecutorIdle /\ RunnerIdle /\ SingleRun /\ TriggersIdle /\ WorkerIdle
    /\ pieces \in Templates
    /\ context \in Contexts
    /\ parameters \in {ParamsFlat(Flatten(pieces)), ParamsDeep(Flatten(pieces))}
    /\ resolved = Undef
    /\ given = [parameters |-> parameters, context |-> context]
    /\ resolvedBefore = Undef /\ resolveCalls = 0

\* Calls of resolve one caller makes with the same two objects.
MaxResolveCalls == 2

Resolve ==
    /\ caller = "resolve" /\ pc = "call"
    /\ resolved' = resolve(parameters, context)
    /\ parameters' = ParametersAfter(parameters, context)
    /\ context' = ContextAfter(parameters, context)
    /\ resolvedBefore' = resolved
    /\ resolveCalls' = resolveCalls + 1
    /\ pc' = "returned"
    /\ UNCHANGED <<caller, pieces, given, executorVars, runnerVars, otherRunVars, triggerVars, workerVars>>

\* The caller calls resolve once more, with the objects it already passed.
ResolveAgain ==
    /\ caller = "resolve" /\ pc = "returned"
    /\ resolveCalls < MaxResolveCalls
    /\ pc' = "call"
    /\ UNCHANGED <<caller, resolverVars, executorVars, runnerVars, otherRunVars, triggerVars, workerVars>>

NextResolve == Resolve \/ ResolveAgain

SpecResolve == InitResolve /\ [][NextResolve]_vars

---------------------------------------------------------------------------
(* Step and workflow definitions the runs are given *)

MaxSteps == 3
MaxAttempts == 3

StepIds == <<"s1", "s2", "s3", "s4">>

\* A map without its undefined entries (an absent optional field).
Compact(m) == [k \in {j \in DOMAIN m : m[j].t # "undef"} |-> m[k]]

RetryPolicy(maxAttempts, delayMs, backoffMultiplier) ==
    Obj(Compact([k \in {"maxAttempts", "delayMs", "backoffMultiplier"} |->
        CASE k = "maxAttempts" -> maxAttempts
          [] k = "delayMs" -> delayMs
          [] OTHER -> backoffMultiplier]))

\* The parameters of the javascript step: the script and its context.
SumParameters ==
    Obj(Map2("code", Str(SumCode),
             "context", Obj(Map2("a", Num(2), "b", Num(3)))))

ConnectorConfig(connectorType) == Map1("connectorType", Str(<<connectorType>>))

\* Parameters that also read an output of step s1.
RefParameters ==
    Obj(Spread(SumParameters.v,
               Map1("note", Str(<<"$", "{", "steps", ".", "s1", ".", "k", ".", "k", "}">>))))

\* The kinds of step the runs are given, by a name:
\*   http          a connector step on the http connector
\*   js            a javascript connector step, its script in parameters
\*   jsref         a javascript connector step whose parameters read a step output
\*   jsplain       a javascript connector step without parameters
\*   unregistered  a connector step whose connectorType is not registered
\*   parallel      a step of type 'parallel'
\*   transformer   a transformer step that maps input.code to out
\*   badmapping    a transformer step whose mapping holds a number for a path
\*   condition     a condition step that tests whether input.code holds a script
\*   transformerp  the transformer step, with the parameters of js
\*   conditionp    the condition step, with the parameters of js
StepOfKind(kind, id, retryPolicy, dependsOn) ==
    [id |-> id,
     type |-> CASE kind = "parallel" -> "parallel"
                [] kind \in {"transformer", "badmapping", "transformerp"} -> "transformer"
                [] kind \in {"condition", "conditionp"} -> "condition"
                [] OTHER -> "connector",
     config |-> CASE kind \in {"js", "jsref", "jsplain"} -> ConnectorConfig("javascript")
                  [] kind = "unregistered" -> ConnectorConfig("nonexistent")
                  [] kind = "parallel" -> EmptyMap
                  [] kind \in {"transformer", "transformerp"} ->
                        Map1("mapping", Obj(Map1("out", Str(<<"code">>))))
                  [] kind = "badmapping" -> Map1("mapping", Obj(Map1("out", Num(5))))
                  [] kind \in {"condition", "conditionp"} ->
                        Map1("condition",
                             Obj([k \in {"field", "operator", "value"} |->
                                    CASE k = "field" -> Str(<<"code">>)
                                      [] k = "operator" -> Str(<<"contains">>)
                                      [] OTHER -> Str(ThrowCode)]))
                  [] OTHER -> ConnectorConfig("http"),
     parameters |-> CASE kind \in {"js", "transformerp", "conditionp"} -> SumParameters
                      [] kind = "jsref" -> RefParameters
                      [] OTHER -> Undef,
     retryPolicy |-> retryPolicy,
     dependsOn |-> dependsOn]

\* Kinds a step of a workflow run can have beside http.
SpecialKinds == {"js"}

\* The retry policy a step of a workflow run can have: two attempts.
RetryTwice == RetryPolicy(Num(2), Num(10), Num(2))

\* dependsOn of the one step of a workflow that has dependencies: absent,
\* empty, one or two ids (steps of the workflow in any position, or "zz",
\* which is no step of it), or a value that is not an array.
DependsOnChoices(ids) ==
    {Undef, Arr(<<>>), Num(1)}
      \cup {Arr(<<a>>) : a \in ids \cup {"zz"}}
      \cup {Arr(<<a, b>>) : a \in ids \cup {"zz"}, b \in ids}

ErrorHandlings ==
    {Undef} \cup {Obj(Map1("onError", Str(<<e>>))) : e \in {"stop", "continue", "retry"}}

WorkflowInputs == {EmptyMap, Map2("data", Num(0), "y", Num(2))}

\* Workflows of n http steps s1..sn, of which at most one (j) is of a special
\* kind instead, the first may have a retry policy (retried) and at most one
\* (d) has a dependsOn.
Workflows ==
    {[id |-> "wf1",
      steps |-> [i \in 1..n |->
                   StepOfKind(IF i = j THEN kind ELSE "http", StepIds[i],
                              IF i = 1 /\ retried THEN RetryTwice ELSE Undef,
                              IF i = d THEN deps ELSE Undef)],
      errorHandling |-> eh] :
        n \in 1..MaxSteps, j \in 0..MaxSteps, kind \in SpecialKinds,
        retried \in BOOLEAN, d \in 1..MaxSteps, eh \in ErrorHandlings,
        deps \in DependsOnChoices({StepIds[i] : i \in 1..MaxSteps})}

---------------------------------------------------------------------------
(* Runs of WorkflowExecutor.execute with an emitter that honours its       *)
(* interface (emit returns)                                                *)

Init ==
    /\ caller = "execute" /\ pc = "idle"
    /\ workflow \in Workflows
    /\ wfInput \in WorkflowInputs
    /\ emitter = "ok"
    /\ execution = NoExecution /\ stepIdx = 0 /\ emitted = <<>>
    /\ emitThrew = "" /\ started = <<>>
    /\ RunnerIdle /\ ResolverIdle /\ SingleRun /\ TriggersIdle /\ WorkerIdle

Next == Begin \/ LoopHead \/ Attempt \/ Sleep \/ StepDone \/ Finalize \/ Finish

Spec == Init /\ [][Next]_vars

---------------------------------------------------------------------------
(* Runs of WorkflowExecutor.execute with no emitter, or with one whose emit *)
(* may throw                                                               *)

InitEmit ==
    /\ caller = "execute" /\ pc = "idle"
    /\ workflow \in {w \in Workflows :
                       \A i \in 1..Len(w.steps) : w.steps[i].dependsOn.t = "undef"}
    /\ wfInput = EmptyMap
    /\ emitter \in {"none", "faulty"}
    /\ execution = NoExecution /\ stepIdx = 0 /\ emitted = <<>>
    /\ emitThrew = "" /\ started = <<>>
    /\ RunnerIdle /\ ResolverIdle /\ SingleRun /\ TriggersIdle /\ WorkerIdle

SpecEmit == InitEmit /\ [][Next]_vars

---------------------------------------------------------------------------
(* Direct calls of StepRunner.executeWithRetry, as the tests make them     *)

RunnerKinds == {"http", "js", "jsref", "jsplain", "unregistered", "parallel",
                "transformer", "badmapping", "condition", "transformerp",
                "conditionp"}

RunnerPolicies ==
    {Undef} \cup
    {RetryPolicy(m, d, b) :
        m \in {Undef} \cup {Num(n) : n \in 0..MaxAttempts},
        d \in {Undef, Num(0), Num(10)},
        b \in {Undef, Num(1), Num(2)}}

RunnerInputs ==
    {EmptyMap, Map2("code", Str(ThrowCode), "context", EmptyObj),
     Map2("code", Str(ThrowCode), "y", Num(2))}

\* The parameterContext argument: absent, a ParameterContext, or one whose
\* stepExecutions Map has become a plain object on its way to the runner.
ParameterContexts ==
    {Undef, [t |-> "ctx", v |-> RichContext], [t |-> "plainctx", v |-> RichContext]}

InitRunner ==
    /\ caller = "direct" /\ pc = "idle"
    /\ ExecutorIdle /\ ResolverIdle /\ SingleRun /\ TriggersIdle /\ WorkerIdle
    /\ curStep \in {StepOfKind(k, "s1", p, Undef) :
                       k \in RunnerKinds, p \in RunnerPolicies}
    /\ curInput \in RunnerInputs
    /\ curPctx \in ParameterContexts
    /\ attempt = 0 /\ currentDelay = 0 /\ lastExecution = Null
    /\ calls = 0 /\ waits = <<>> /\ connInputs = <<>>

\* The test's call runner.executeWithRetry(step, input, {}, parameterContext).
Call ==
    /\ caller = "direct" /\ pc = "idle"
    /\ EnterRetry(curStep, curInput, curPctx)
    /\ UNCHANGED <<caller, connInputs, executorVars, resolverVars, otherRunVars, triggerVars, workerVars>>

\* executeWithRetry hands lastExecution back to the test.
Returned ==
    /\ caller = "direct" /\ pc = "retdone"
    /\ pc' = "returned"
    /\ UNCHANGED <<caller, runnerVars, executorVars, resolverVars, otherRunVars, triggerVars, workerVars>>

NextRunner == Call \/ Attempt \/ Sleep \/ Returned

SpecRunner == InitRunner /\ [][NextRunner]_vars

---------------------------------------------------------------------------
(* Two concurrent calls of execute on one WorkflowExecutor, as the worker  *)
(* makes them: its one WorkflowProcessor holds one executor, built without *)
(* an emitter, and serves several jobs at a time.  The variables hold the  *)
(* call that runs now; those of the suspended call are in `parked`.        *)

MaxConcurrentSteps == 2

\* The variables that are local to one call of execute and to the
\* executeWithRetry it awaits.
Locals ==
    [pc |-> pc, workflow |-> workflow, wfInput |-> wfInput,
     execution |-> execution, stepIdx |-> stepIdx, emitThrew |-> emitThrew,
     started |-> started, curStep |-> curStep, curInput |-> curInput,
     curPctx |-> curPctx, attempt |-> attempt, currentDelay |-> currentDelay,
     lastExecution |-> lastExecution, calls |-> calls, waits |-> waits,
     connInputs |-> connInputs]

\* The locals of a call that has not begun.
NotBegun(wf, input) ==
    [pc |-> "idle", workflow |-> wf, wfInput |-> input,
     execution |-> NoExecution, stepIdx |-> 0, emitThrew |-> "",
     started |-> <<>>, curStep |-> NoStep, curInput |-> EmptyMap,
     curPctx |-> Undef, attempt |-> 0, currentDelay |-> 0,
     lastExecution |-> Null, calls |-> 0, waits |-> <<>>,
     connInputs |-> <<>>]

\* A sleep that keeps the thread busy until the delay is over.
YieldsButSleep(p) == p \in {"idle", "attempt", "retdone", "returned"}

\* Positions at which a call leaves the thread to others: it has not begun,
\* it awaits executeStep, it awaits sleep, it awaits the return of
\* executeWithRetry, or it has returned.
Yields(p) == p \in {"idle", "attempt", "sleep", "retdone", "returned"}

\* An executor that keeps the execution in a field of its own.
ExecutionOfExecutor(own, other) == other

\* The execution a resumed call works on: the object it created itself
\* (own), whatever the call that ran meanwhile has (other).
ExecutionOf(own, other) == own

\* The call that runs reaches an await or its end, and the event loop
\* resumes the other call.
Switch ==
    /\ caller = "execute" /\ current # 0
    /\ Yields(pc)
    /\ parked.pc # "returned"
    /\ current' = 3 - current
    /\ parked' = Locals
    /\ pc' = parked.pc
    /\ workflow' = parked.workflow
    /\ wfInput' = parked.wfInput
    /\ execution' = ExecutionOf(parked.execution, execution)
    /\ stepIdx' = parked.stepIdx
    /\ emitThrew' = parked.emitThrew
    /\ started' = parked.started
    /\ curStep' = parked.curStep
    /\ curInput' = parked.curInput
    /\ curPctx' = parked.curPctx
    /\ attempt' = parked.attempt
    /\ currentDelay' = parked.currentDelay
    /\ lastExecution' = parked.lastExecution
    /\ calls' = parked.calls
    /\ waits' = parked.waits
    /\ connInputs' = parked.connInputs
    /\ UNCHANGED <<caller, emitter, emitted, resolverVars, triggerVars, workerVars>>

\* The retry policies of the first step of a concurrent workflow.
ConcurrentPolicies ==
    {Undef, RetryPolicy(Num(3), Num(10), Num(2)), RetryPolicy(Num(2), Num(5), Num(3))}

\* Workflows of n http steps, the first with one of the policies, that stop
\* at a failed step (by default) or continue, as `handlings` has it.
ConcurrentWorkflows(handlings) ==
    {[id |-> "wf1",
      steps |-> [i \in 1..n |->
                   StepOfKind("http", StepIds[i],
                              IF i = 1 THEN policy ELSE Undef, Undef)],
      errorHandling |-> eh] :
        n \in 1..MaxConcurrentSteps, policy \in ConcurrentPolicies,
        eh \in handlings}

\* The input of the r-th call.
RunInput(r) == Map1("run", Num(r))

InitConcurrent ==
    /\ caller = "execute" /\ pc = "idle"
    /\ workflow \in ConcurrentWorkflows({Undef, Obj(Map1("onError", Str(<<"continue">>)))})
    /\ wfInput = RunInput(1)
    /\ emitter = "none"
    /\ execution = NoExecution /\ stepIdx = 0 /\ emitted = <<>>
    /\ emitThrew = "" /\ started = <<>>
    /\ RunnerIdle /\ ResolverIdle
    /\ current = 1
    /\ parked \in {NotBegun(wf, RunInput(2)) : wf \in ConcurrentWorkflows({Undef})}
    /\ TriggersIdle /\ WorkerIdle

NextConcurrent ==
    \/ Begin \/ LoopHead \/ Attempt \/ Sleep \/ StepDone \/ Finalize \/ Finish
    \/ Switch

SpecConcurrent == InitConcurrent /\ [][NextConcurrent]_vars

---------------------------------------------------------------------------
(* Calls of ParameterResolver.buildContext on an execution, as the test    *)
(* makes them                                                              *)

MaxTrace == 3

\* Outputs a StepExecution of the trace can have: none, or an object.
TraceOutputs ==
    {Undef, EmptyObj, Obj(Map1("result", Str(<<"success">>))),
     Obj(Map1("data", Obj(Map1("value", Num(42)))))}

\* A StepExecution as the test writes it: completed with an output, failed
\* without.
TraceRecord(id, output) ==
    [stepId |-> id,
     status |-> IF output.t = "undef" THEN "failed" ELSE "completed",
     input |-> Undef, output |-> output, error |-> Undef,
     startedAt |-> Date, completedAt |-> Date, attempts |-> 1]

TraceRecords == {TraceRecord(id, o) : id \in {"s1", "s2"}, o \in TraceOutputs}

RECURSIVE TracesOfLen(_)
TracesOfLen(n) ==
    IF n = 0 THEN {<<>>}
    ELSE {Append(t, r) : t \in TracesOfLen(n - 1), r \in TraceRecords}

Traces == UNION {TracesOfLen(n) : n \in 0..MaxTrace}

InitContext ==
    /\ caller = "buildContext" /\ pc = "call"
    /\ workflow = NoWorkflow /\ emitter = "none" /\ stepIdx = 0
    /\ emitted = <<>> /\ emitThrew = "" /\ started = <<>>
    /\ wfInput \in {EmptyMap, Map1("userId", Str(<<"456">>))}
    /\ execution \in {[status |-> "running", input |-> Obj(wfInput),
                       stepExecutions |-> t, output |-> Undef,
                       error |-> Undef, completedAt |-> Undef] : t \in Traces}
    /\ RunnerIdle /\ ResolverIdle /\ SingleRun /\ TriggersIdle /\ WorkerIdle

\* const context = ParameterResolver.buildContext(workflowInput, execution)
BuildContext ==
    /\ caller = "buildContext" /\ pc = "call"
    /\ context' = buildContext(wfInput, execution)
    /\ pc' = "returned"
    /\ UNCHANGED <<caller, executorVars, runnerVars, parameters, pieces,
                   resolved, given, resolvedBefore, resolveCalls, otherRunVars, triggerVars, workerVars>>

NextContext == BuildContext

SpecContext == InitContext /\ [][NextContext]_vars

---------------------------------------------------------------------------
(* WebhookHandler *)

\* What a call of a handler comes to: the value its promise resolves to, or
\* the message of the error it rejects with.
Resolved(value) == [rejected |-> FALSE, value |-> value, message |-> <<>>]
Rejected(message) == [rejected |-> TRUE, value |-> Undef, message |-> message]

\* String.prototype.toUpperCase and toLowerCase on the words that occur.
toUpperCase(word) ==
    CASE word \in {"post", "Post"} -> "POST"
      [] word = "get" -> "GET"
      [] OTHER -> word

toLowerCase(word) ==
    CASE word = "X-Webhook-Secret" -> "x-webhook-secret"
      [] word = "X-Sig" -> "x-sig"
      [] word = "Authorization" -> "authorization"
      [] OTHER -> word

\* Buffer.from(text, 'base64').toString() on the texts that occur.
Base64Decode(text) ==
    CASE text = <<"bXktc2VjcmV0">> -> <<"my-secret">>
      [] text = <<"d3Jvbmc=">> -> <<"wrong">>
      [] OTHER -> <<"?">>

\* token.startsWith(prefix), token.substring(prefix.length): a header value
\* is a sequence whose first element is the scheme with its blank, if any.
StartsWith(token, prefix) == token # <<>> /\ Head(token) = prefix
AfterPrefix(token) == Tail(token)

\* Array.isArray(authHeader) ? authHeader[0] : authHeader
FirstOf(header) == IF header.t = "arr" THEN header.v[1] ELSE header

\* The check of the Authorization header for the schemes bearer and basic.
SchemeError(headers, scheme, secret, decode) ==
    LET authHeader == Get(headers, "authorization") IN
    IF ~Truthy(authHeader) THEN <<"Missing Authorization header">>
    ELSE LET token == FirstOf(authHeader).v IN
         IF ~StartsWith(token, scheme)
         THEN <<"Invalid Authorization header format">>
         ELSE IF Truthy(secret)
                 /\ (IF decode THEN Base64Decode(AfterPrefix(token))
                               ELSE AfterPrefix(token)) # secret.v
         THEN IF decode THEN <<"Invalid basic auth credentials">>
                        ELSE <<"Invalid bearer token">>
         ELSE <<>>

\* A validateAuthentication that lets every request pass.
validateAuthenticationPasses(headers, authConfig) == <<>>

\* WebhookHandler.validateAuthentication: the message of the error it
\* throws, <<>> when it returns.
validateAuthentication(headers, authConfig) ==
    LET type == Get(authConfig, "type")
        headerName == Get(authConfig, "headerName")
        secret == Get(authConfig, "secret")
    IN  CASE type = Str(<<"secret">>) ->
               LET header == OrElse(headerName, Str(<<"X-Webhook-Secret">>)).v[1]
                   providedSecret == Get(headers, toLowerCase(header))
               IN  IF ~Truthy(providedSecret)
                   THEN <<"Missing authentication header: ", header>>
                   ELSE IF Truthy(secret) /\ providedSecret # secret
                   THEN <<"Invalid webhook secret">>
                   ELSE <<>>
          [] type = Str(<<"bearer">>) -> SchemeError(headers, "Bearer ", secret, FALSE)
          [] type = Str(<<"basic">>)  -> SchemeError(headers, "Basic ", secret, TRUE)
          [] OTHER -> <<>>

\* The path a registration is stored under: with a leading slash.
NormalizedPath(path) == IF Head(path) = "/" THEN path ELSE <<"/">> \o path

\* handler.setExecutionCallback(callback), of either handler.
SetExecutionCallback ==
    /\ caller \in {"webhook", "event"} /\ callback = "unset"
    /\ callback' = "set"
    /\ UNCHANGED <<pc, caller, registrations, pathOrder, invoked, request, response, handled,
                   executorVars, runnerVars, resolverVars, otherRunVars, workerVars>>

\* handler.registerWorkflow(wf): the registration, or the error it throws.
registerWorkflow(wf) ==
    /\ caller = "webhook"
    /\ IF wf.trigger.type # "webhook" \/ ~Truthy(Get(wf.trigger.config, "path"))
       THEN UNCHANGED <<registrations, pathOrder>>
       ELSE LET normalizedPath == NormalizedPath(wf.trigger.config["path"].v) IN
            /\ registrations' =
                  Spread(registrations,
                         Map1(normalizedPath,
                              [workflowId |-> wf.id,
                               config |-> Spread(wf.trigger.config,
                                                 Map1("path", Str(normalizedPath)))]))
            /\ pathOrder' = IF normalizedPath \in DOMAIN registrations
                            THEN pathOrder
                            ELSE Append(pathOrder, normalizedPath)
    /\ UNCHANGED <<pc, caller, callback, invoked, request, response, handled,
                   executorVars, runnerVars, resolverVars, otherRunVars, workerVars>>

\* handler.unregisterWorkflow(workflowId): the loop over the Map's entries
\* deletes the first registration of the workflow, in the order the paths
\* were inserted, and breaks.
unregisterWorkflow(workflowId) ==
    /\ caller = "webhook"
    /\ \E i \in 1..Len(pathOrder) :
         /\ registrations[pathOrder[i]].workflowId = workflowId
         /\ \A j \in 1..(i - 1) : registrations[pathOrder[j]].workflowId # workflowId
         /\ registrations' =
               [q \in DOMAIN registrations \ {pathOrder[i]} |-> registrations[q]]
         /\ pathOrder' = SubSeq(pathOrder, 1, i - 1)
                         \o SubSeq(pathOrder, i + 1, Len(pathOrder))
    /\ UNCHANGED <<pc, caller, callback, invoked, request, response, handled,
                   executorVars, runnerVars, resolverVars, otherRunVars, workerVars>>

\* Calls of handleWebhook that are served.
MaxRequests == 1

\* handler.handleWebhook(path, method, headers, body); the execution
\* callback resolves with a job id or rejects.
handleWebhook(path, method, headers, body) ==
    /\ caller = "webhook" /\ handled < MaxRequests
    /\ request' = [path |-> path, method |-> method, headers |-> headers,
                   body |-> body]
    /\ handled' = handled + 1
    /\ IF path \notin DOMAIN registrations
       THEN /\ response' = Rejected(<<"No webhook registered at path: ">> \o path)
            /\ UNCHANGED invoked
       ELSE LET config == registrations[path].config
                workflowId == registrations[path].workflowId
                expectedMethod == OrElse(Get(config, "method"), Str(<<"POST">>)).v[1]
                authentication == Get(config, "authentication")
                authError ==
                    IF Truthy(authentication)
                       /\ Get(authentication.v, "type") # Str(<<"none">>)
                    THEN validateAuthentication(headers, authentication.v)
                    ELSE <<>>
            IN  IF toUpperCase(method) # toUpperCase(expectedMethod)
                THEN /\ response' =
                          Rejected(<<"Method not allowed. Expected ", expectedMethod,
                                     ", got ", method>>)
                     /\ UNCHANGED invoked
                ELSE IF authError # <<>>
                THEN /\ response' = Rejected(authError)
                     /\ UNCHANGED invoked
                ELSE IF callback = "unset"
                THEN /\ response' = Rejected(<<"Execution callback not set">>)
                     /\ UNCHANGED invoked
                ELSE /\ invoked' = Append(invoked, [workflowId |-> workflowId,
                                                    input |-> body])
                     /\ response' \in
                          {Resolved([jobId |-> <<"job-", workflowId, "-123">>,
                                     workflowId |-> workflowId]),
                           Rejected(<<"enqueue failed">>)}
    /\ UNCHANGED <<pc, caller, registrations, pathOrder, callback,
                   executorVars, runnerVars, resolverVars, otherRunVars, workerVars>>

\* The authentication blocks of the webhook configs.
Authentications ==
    {Undef,
     Obj(Map1("type", Str(<<"none">>))),
     Obj(Map2("type", Str(<<"secret">>), "secret", Str(<<"my-secret">>))),
     Obj(Map2("type", Str(<<"secret">>), "headerName", Str(<<"X-Sig">>))),
     Obj(Map2("type", Str(<<"bearer">>), "secret", Str(<<"my-secret">>))),
     Obj(Map1("type", Str(<<"bearer">>))),
     Obj(Map2("type", Str(<<"basic">>), "secret", Str(<<"my-secret">>)))}

\* A WebhookTriggerConfig without its absent fields.
WebhookConfig(path, method, authentication) ==
    Compact([k \in {"path", "method", "authentication"} |->
        CASE k = "path" -> path
          [] k = "method" -> method
          [] OTHER -> authentication])

\* The workflows given to registerWorkflow: wfA at /hook, written with or
\* without its slash, with a method or an authentication; wfB at /hook or
\* /other; a workflow with a manual trigger and one without a path.
WebhookWorkflows ==
    {[id |-> "wfA",
      trigger |-> [type |-> "webhook",
                   config |-> WebhookConfig(Str(path), method, Undef)]] :
        path \in {<<"/", "hook">>, <<"hook">>},
        method \in {Undef, Str(<<"GET">>)}}
    \cup
    {[id |-> "wfA",
      trigger |-> [type |-> "webhook",
                   config |-> WebhookConfig(Str(path), Undef, authentication)]] :
        path \in {<<"/", "hook">>, <<"hook">>},
        authentication \in Authentications}
    \cup
    {[id |-> "wfB",
      trigger |-> [type |-> "webhook",
                   config |-> WebhookConfig(Str(path), Undef, Undef)]] :
        path \in {<<"/", "hook">>, <<"/", "other">>}}
    \cup
    {[id |-> "wfA", trigger |-> [type |-> "manual", config |-> EmptyMap]],
     [id |-> "wfA", trigger |-> [type |-> "webhook", config |-> EmptyMap]]}

\* The requests: path, method, headers and body; those with a method other
\* than POST carry no headers.
RequestPaths == {<<"/", "hook">>, <<"hook">>, <<"/", "other">>}
RequestMethods == {"POST", "post", "GET"}
RequestHeaders ==
    {EmptyMap,
     Map1("x-webhook-secret", Str(<<"my-secret">>)),
     Map1("x-webhook-secret", Str(<<"wrong-secret">>)),
     Map1("X-Webhook-Secret", Str(<<"my-secret">>)),
     Map1("x-sig", Str(<<"anything">>)),
     Map1("authorization", Str(<<"Bearer ", "my-secret">>)),
     Map1("authorization", Str(<<"Bearer ", "wrong">>)),
     Map1("authorization", Str(<<"my-secret">>)),
     Map1("authorization", Arr(<<Str(<<"Bearer ", "my-secret">>)>>)),
     Map1("authorization", Str(<<"Basic ", "bXktc2VjcmV0">>)),
     Map1("authorization", Str(<<"Basic ", "d3Jvbmc=">>))}
RequestBodies == {EmptyMap, Map1("test", Str(<<"data">>))}

InitWebhook ==
    /\ caller = "webhook" /\ pc = "idle"
    /\ ExecutorIdle /\ RunnerIdle /\ ResolverIdle /\ SingleRun /\ TriggersIdle /\ WorkerIdle

NextWebhook ==
    \/ SetExecutionCallback
    \/ \E wf \in WebhookWorkflows : registerWorkflow(wf)
    \/ \E workflowId \in {"wfA", "wfB"} : unregisterWorkflow(workflowId)
    \/ \E path \in RequestPaths, method \in RequestMethods,
          body \in RequestBodies :
         \E headers \in IF method = "POST" THEN RequestHeaders ELSE {EmptyMap} :
            handleWebhook(path, method, headers, body)

SpecWebhook == InitWebhook /\ [][NextWebhook]_vars

---------------------------------------------------------------------------
(* EventHandler.  One call of publishEvent is followed, after any history  *)
(* of registrations and with registrations changing while it awaits: the  *)
(* handler keeps nothing from one call to the next but its registrations. *)

\* Registrations the handler holds at most, over all event types.
MaxRegistrations == 2

EventTypes == {"user.created", "order.placed"}

\* this.registrations.get(eventType) || []
RegistrationsOf(eventType) ==
    IF eventType \in DOMAIN registrations THEN registrations[eventType] ELSE <<>>

\* A matchesFilters that does not look at the source.
matchesFiltersButSource(event, config) ==
    LET filters == Get(config, "filters") IN
    Truthy(filters) =>
        \A key \in DOMAIN filters.v : StrictEq(Get(event.data, key), filters.v[key])

\* EventHandler.matchesFilters
matchesFilters(event, config) ==
    LET source == Get(config, "source")
        filters == Get(config, "filters")
    IN  IF Truthy(source) /\ ~StrictEq(event.source, source) THEN FALSE
        ELSE IF Truthy(filters)
        THEN \A key \in DOMAIN filters.v :
                StrictEq(Get(event.data, key), filters.v[key])
        ELSE TRUE

\* Date.prototype.toISOString of the event's timestamp.
toISOString(date) == Str(<<"2024-01-01T00:00:00.000Z">>)

\* The input publishEvent hands to the execution callback.
Payload(event) ==
    [k \in {"event", "data", "metadata"} |->
       CASE k = "event" ->
               Obj([j \in {"type", "source", "timestamp"} |->
                      CASE j = "type" -> Str(<<event.eventType>>)
                        [] j = "source" -> event.source
                        [] OTHER -> toISOString(event.timestamp)])
         [] k = "data" -> Obj(event.data)
         [] OTHER -> event.metadata]

\* handler.registerWorkflow(wf) of the EventHandler.  The registration is
\* pushed onto the array of its event type; a publishEvent that is iterating
\* over that very array (live) will come to it.
registerEventWorkflow(wf) ==
    /\ caller = "event" /\ handled = 0
    /\ Len(RegistrationsOf("user.created")) + Len(RegistrationsOf("order.placed"))
          < MaxRegistrations
    /\ IF wf.trigger.type # "event" \/ ~Truthy(Get(wf.trigger.config, "eventType"))
       THEN UNCHANGED <<registrations, request>>
       ELSE LET eventType == wf.trigger.config["eventType"].v[1]
                entry == [workflowId |-> wf.id, config |-> wf.trigger.config]
            IN  /\ registrations' =
                      Spread(registrations,
                             Map1(eventType, Append(RegistrationsOf(eventType), entry)))
                /\ request' =
                      IF pc = "publishing" /\ request.event.eventType = eventType
                      THEN [request EXCEPT
                              !.regs = IF request.live THEN Append(@, entry) ELSE @,
                              !.disturbed = TRUE]
                      ELSE request
    /\ UNCHANGED <<pc, caller, pathOrder, callback, invoked, response, handled,
                   executorVars, runnerVars, resolverVars, otherRunVars, workerVars>>

\* registrations.filter(reg => reg.workflowId !== workflowId)
RECURSIVE FilterOut(_, _)
FilterOut(regs, workflowId) ==
    IF regs = <<>> THEN <<>>
    ELSE IF Head(regs).workflowId = workflowId THEN FilterOut(Tail(regs), workflowId)
    ELSE <<Head(regs)>> \o FilterOut(Tail(regs), workflowId)

\* handler.unregisterWorkflow(workflowId) of the EventHandler: an array that
\* loses an element is replaced by a new one, or deleted when none is left;
\* a publishEvent that is iterating goes on with the old array.
unregisterEventWorkflow(workflowId) ==
    /\ caller = "event" /\ handled = 0
    /\ \E eventType \in DOMAIN registrations :
         FilterOut(registrations[eventType], workflowId) # registrations[eventType]
    /\ registrations' =
         [eventType \in {t \in DOMAIN registrations :
                            FilterOut(registrations[t], workflowId) # <<>>} |->
            FilterOut(registrations[eventType], workflowId)]
    /\ request' =
         IF pc = "publishing"
            /\ FilterOut(RegistrationsOf(request.event.eventType), workflowId)
                  # RegistrationsOf(request.event.eventType)
         THEN [request EXCEPT !.live = FALSE, !.disturbed = TRUE]
         ELSE request
    /\ UNCHANGED <<pc, caller, pathOrder, callback, invoked, response, handled,
                   executorVars, runnerVars, resolverVars, otherRunVars, workerVars>>

\* The index, from i on, of the next registration for which the loop of
\* publishEvent awaits the callback: it matches the event and a callback is
\* set (the error thrown when none is set is caught at once).
RECURSIVE NextAwait(_, _, _)
NextAwait(regs, i, event) ==
    IF i > Len(regs) THEN i
    ELSE IF matchesFilters(event, regs[i].config) /\ callback = "set" THEN i
    ELSE NextAwait(regs, i + 1, event)

\* The loop of publishEvent from the registration req.idx on, up to its next
\* await or to its return.
Advance(req) ==
    LET j == NextAwait(req.regs, req.idx, req.event) IN
    /\ request' = [req EXCEPT !.idx = j]
    /\ IF j > Len(req.regs)
       THEN /\ response' = Resolved(Arr(req.jobIds))
            /\ handled' = handled + 1
            /\ pc' = "idle"
            /\ UNCHANGED invoked
       ELSE /\ invoked' = Append(invoked, [workflowId |-> req.regs[j].workflowId,
                                           input |-> Payload(req.event)])
            /\ pc' = "publishing"
            /\ UNCHANGED <<response, handled>>

\* handler.publishEvent(event) up to its first await.  Beside the locals of
\* the call, the request keeps what the properties speak of: the
\* registrations and the callback as they were at the call, whether the
\* registrations of the event's type changed since, and how each invocation
\* of the callback ended.
publishEvent(event) ==
    /\ caller = "event" /\ pc = "idle" /\ handled = 0
    /\ Advance([event |-> event,
                regs |-> RegistrationsOf(event.eventType),
                live |-> event.eventType \in DOMAIN registrations,
                idx |-> 1,
                jobIds |-> <<>>,
                atCall |-> RegistrationsOf(event.eventType),
                callbackAtCall |-> callback,
                invokedBefore |-> Len(invoked),
                disturbed |-> FALSE,
                accepted |-> <<>>])
    /\ UNCHANGED <<caller, registrations, pathOrder, callback,
                   executorVars, runnerVars, resolverVars, otherRunVars, workerVars>>

\* A loop that a refused callback ends: the catch around the for statement.
AfterCallbackBreaking(req, accepts) ==
    IF accepts THEN req.idx + 1 ELSE Len(req.regs) + 1

\* The registration the loop goes to once the callback's promise settled:
\* the try/catch is inside the for body, so after a caught error, as after a
\* pushed job id, it is the next one.
AfterCallback(req, accepts) == req.idx + 1

\* The callback's promise settles: the job id is pushed, or the error is
\* caught and logged; the loop goes on.
PublishResume ==
    /\ caller = "event" /\ pc = "publishing"
    /\ \E accepts \in BOOLEAN :
         Advance([request EXCEPT
                    !.jobIds = IF accepts
                               THEN Append(@, Str(<<"job-", request.regs[request.idx].workflowId,
                                                    "-123">>))
                               ELSE @,
                    !.accepted = Append(@, accepts),
                    !.idx = AfterCallback(request, accepts)])
    /\ UNCHANGED <<caller, registrations, pathOrder, callback,
                   executorVars, runnerVars, resolverVars, otherRunVars, workerVars>>

\* An EventTriggerConfig without its absent fields.
EventConfig(eventType, source, filters) ==
    Compact([k \in {"eventType", "source", "filters"} |->
        CASE k = "eventType" -> eventType
          [] k = "source" -> source
          [] OTHER -> filters])

\* An object as a filter or data value: it is equal to no other object.
TierObject == Obj(Map1("tier", Num(1)))

\* The workflows given to registerWorkflow: wfA on user.created with a
\* source or a filter, wfB on either event type without any, a workflow
\* with a manual trigger and one without an eventType.
EventWorkflows ==
    {[id |-> "wfA",
      trigger |-> [type |-> "event",
                   config |-> EventConfig(Str(<<"user.created">>), source, Undef)]] :
        source \in {Str(<<"auth-service">>)}}
    \cup
    {[id |-> "wfA",
      trigger |-> [type |-> "event",
                   config |-> EventConfig(Str(<<"user.created">>), Undef, filters)]] :
        filters \in {Obj(Map1("accountType", Str(<<"premium">>))),
                     Obj(Map1("accountType", TierObject))}}
    \cup
    {[id |-> "wfB",
      trigger |-> [type |-> "event",
                   config |-> EventConfig(Str(<<eventType>>), Undef, Undef)]] :
        eventType \in EventTypes}
    \cup
    {[id |-> "wfA", trigger |-> [type |-> "manual", config |-> EmptyMap]],
     [id |-> "wfA", trigger |-> [type |-> "event", config |-> EmptyMap]]}

\* An InternalEvent.
EventOf(eventType, source, data) ==
    [eventType |-> eventType, source |-> source, data |-> data,
     timestamp |-> Date, metadata |-> Undef]

\* The events that are published: user.created from a source or with an
\* account type, and order.placed.
Events ==
    {EventOf("user.created", source, Map1("userId", Str(<<"123">>))) :
        source \in {Undef, Str(<<"auth-service">>), Str(<<"admin-service">>)}}
    \cup
    {EventOf("user.created", Str(<<"auth-service">>), data) :
        data \in {Map2("userId", Str(<<"123">>), "accountType", Str(<<"premium">>)),
                  Map2("userId", Str(<<"456">>), "accountType", Str(<<"free">>)),
                  Map1("accountType", TierObject)}}
    \cup
    {EventOf("order.placed", Undef, EmptyMap)}

InitEvent ==
    /\ caller = "event" /\ pc = "idle"
    /\ ExecutorIdle /\ RunnerIdle /\ ResolverIdle /\ SingleRun /\ TriggersIdle /\ WorkerIdle

NextEvent ==
    \/ SetExecutionCallback
    \/ \E wf \in EventWorkflows : registerEventWorkflow(wf)
    \/ \E workflowId \in {"wfA", "wfB"} : unregisterEventWorkflow(workflowId)
    \/ \E event \in Events : publishEvent(event)
    \/ PublishResume

SpecEvent == InitEvent /\ [][NextEvent]_vars

---------------------------------------------------------------------------
(* The worker: WorkflowProcessor.process on an execute job.  The queue     *)
(* gives every job three attempts: a job whose processor throws is         *)
(* processed again until they are used up.                                *)

\* attempts of the options addExecuteJob gives its jobs.
JobAttempts == 3

\* The workflows the WorkflowRepository can hold for the job: one http step,
\* tried once or twice, stopping or continuing at a failure.
WorkerWorkflows ==
    {[id |-> "wf1",
      steps |-> <<StepOfKind("http", "s1", policy, Undef)>>,
      errorHandling |-> eh] :
        policy \in {Undef, RetryPolicy(Num(2), Num(5), Num(3))},
        eh \in {Undef, Obj(Map1("onError", Str(<<"continue">>)))}}

\* The worker takes the job: processExecute up to the call of execute.
\* workflowRepo.findById resolves to the workflow, or to null, and then
\* processExecute throws.
ProcessExecute ==
    /\ caller = "execute" /\ job # Undef /\ job.stage = "waiting"
    /\ IF job.found
       THEN /\ job' = [job EXCEPT !.stage = "executing"]
            /\ pc' = "idle"
       ELSE /\ job' = [job EXCEPT
                         !.attemptsMade = @ + 1,
                         !.stage = IF job.attemptsMade + 1 < JobAttempts
                                   THEN "waiting" ELSE "failed"]
            /\ UNCHANGED pc
    /\ UNCHANGED <<caller, repository, executorVars, runnerVars, resolverVars,
                   otherRunVars, triggerVars>>

\* The job j after its processor threw: waiting for its next attempt, with
\* the executor's variables as before a call, or failed for good.
ProcessorThrew(j) ==
    /\ job' = [j EXCEPT
                 !.attemptsMade = @ + 1,
                 !.stage = IF j.attemptsMade + 1 < JobAttempts
                           THEN "waiting" ELSE "failed"]
    /\ pc' = "queued"
    /\ execution' = NoExecution /\ stepIdx' = 0 /\ started' = <<>>
    /\ curStep' = NoStep /\ curInput' = EmptyMap /\ curPctx' = Undef
    /\ attempt' = 0 /\ currentDelay' = 0 /\ lastExecution' = Null
    /\ calls' = 0 /\ waits' = <<>> /\ connInputs' = <<>>

\* await this.executionRepo.create(execution): the record is stored, or the
\* database refuses it and create rejects.
Create ==
    /\ caller = "execute" /\ job # Undef /\ job.stage = "executing"
    /\ pc = "returned"
    /\ \/ /\ repository' = Append(repository, execution)
          /\ job' = [job EXCEPT !.stage = "created", !.creates = @ + 1]
          /\ UNCHANGED <<pc, execution, stepIdx, started, runnerVars>>
       \/ /\ ProcessorThrew([job EXCEPT !.creates = @ + 1])
          /\ UNCHANGED repository
    /\ UNCHANGED <<caller, workflow, wfInput, emitter, emitted, emitThrew,
                   resolverVars, otherRunVars, triggerVars>>

\* await job.updateProgress(100): the job completes, or the update rejects.
UpdateProgress ==
    /\ caller = "execute" /\ job # Undef /\ job.stage = "created"
    /\ \/ /\ job' = [job EXCEPT !.stage = "completed"]
          /\ UNCHANGED <<pc, execution, stepIdx, started, runnerVars>>
       \/ ProcessorThrew(job)
    /\ UNCHANGED <<caller, workflow, wfInput, emitter, emitted, emitThrew,
                   repository, resolverVars, otherRunVars, triggerVars>>

InitWorker ==
    /\ caller = "execute" /\ pc = "queued"
    /\ workflow \in WorkerWorkflows
    /\ wfInput \in WorkflowInputs
    /\ emitter = "none"
    /\ execution = NoExecution /\ stepIdx = 0 /\ emitted = <<>>
    /\ emitThrew = "" /\ started = <<>>
    /\ RunnerIdle /\ ResolverIdle /\ SingleRun /\ TriggersIdle
    /\ job \in {[workflowId |-> workflow.id, found |-> f, attemptsMade |-> 0,
                 stage |-> "waiting", creates |-> 0] : f \in BOOLEAN}
    /\ repository = <<>>

NextWorker ==
    \/ ProcessExecute
    \/ Begin \/ LoopHead \/ Attempt \/ Sleep \/ StepDone \/ Finalize \/ Finish
    \/ Create \/ UpdateProgress

SpecWorker == InitWorker /\ [][NextWorker]_vars

---------------------------------------------------------------------------
(* Direct calls of executeWithRetry on condition steps *)

\* The operators ConditionStepConfig declares, and one it does not.
ConditionOperators == {"eq", "ne", "gt", "lt", "gte", "lte", "contains", "matches"}

\* Fields a condition names: a key of the input, a key it does not have, and
\* a dotted path into it.
ConditionFields == {<<"x">>, <<"z">>, <<"o", ".", "x">>}

\* Values a condition compares with.  An ordering is asked for against a
\* number only: gt and lt are modelled on numbers, words and undefined.
ConditionValues(operator) ==
    IF operator \in {"gt", "lt", "gte", "lte"} THEN {Num(5)}
    ELSE {Num(5), Str(<<"b">>)}

\* (config as any).condition: absent, null, or a {field, operator, value}.
Conditions ==
    {Undef, Null} \cup
    {Obj([k \in {"field", "operator", "value"} |->
            CASE k = "field" -> Str(field)
              [] k = "operator" -> Str(<<operator>>)
              [] OTHER -> value]) :
        field \in ConditionFields,
        operator \in ConditionOperators,
        value \in UNION {ConditionValues(o) : o \in ConditionOperators}}

\* The condition compares as ConditionValues allows for its operator.
Comparable(condition) ==
    condition.t = "obj" =>
        condition.v["value"] \in ConditionValues(condition.v["operator"].v[1])

ConditionStep(condition) ==
    [id |-> "s1", type |-> "condition",
     config |-> Compact(Map1("condition", condition)),
     parameters |-> Undef, retryPolicy |-> Undef, dependsOn |-> Undef]

\* Inputs whose field x is a number below, at or above 5, a word that holds
\* "b", a word that does not, or absent; o.x is 5 in all of them.
ConditionInputs ==
    {Compact(Map2("x", x, "o", Obj(Map1("x", Num(5))))) :
        x \in {Num(3), Num(5), Num(7), Str(<<"a", "b">>), Str(<<"a">>), Undef}}

InitCondition ==
    /\ caller = "direct" /\ pc = "idle"
    /\ ExecutorIdle /\ ResolverIdle /\ SingleRun /\ TriggersIdle /\ WorkerIdle
    /\ curStep \in {ConditionStep(c) : c \in {d \in Conditions : Comparable(d)}}
    /\ curInput \in ConditionInputs
    /\ curPctx = Undef
    /\ attempt = 0 /\ currentDelay = 0 /\ lastExecution = Null
    /\ calls = 0 /\ waits = <<>> /\ connInputs = <<>>

\* A condition step completes at its first attempt: no wait is ever made.
NextCondition == Call \/ Attempt \/ Returned

SpecCondition == InitCondition /\ [][NextCondition]_vars

---------------------------------------------------------------------------
(* Runs of WorkflowExecutor.execute on workflows with a condition step *)

\* Workflows of three steps: the first or the second is the condition step
\* (is input.code a certain script?), the others are http steps; the step
\* after the condition may list it in dependsOn, and the first step, where it
\* is an http step, may be tried twice.
GatedWorkflows ==
    {[id |-> "wf1",
      steps |-> [i \in 1..3 |->
                   StepOfKind(IF i = j THEN "condition" ELSE "http", StepIds[i],
                              IF i = 1 /\ j # 1 THEN policy ELSE Undef,
                              IF i = j + 1 THEN deps ELSE Undef)],
      errorHandling |-> eh] :
        j \in 1..2, policy \in {Undef, RetryTwice}, eh \in ErrorHandlings,
        deps \in {Undef} \cup {Arr(<<StepIds[k]>>) : k \in 1..2}}

\* Workflow inputs whose code is absent (the condition is not met) or the
\* script (it is met).
GatedInputs == {EmptyMap, Map2("code", Str(ThrowCode), "y", Num(2))}

InitGated ==
    /\ caller = "execute" /\ pc = "idle"
    /\ workflow \in GatedWorkflows
    /\ wfInput \in GatedInputs
    /\ emitter = "ok"
    /\ execution = NoExecution /\ stepIdx = 0 /\ emitted = <<>>
    /\ emitThrew = "" /\ started = <<>>
    /\ RunnerIdle /\ ResolverIdle /\ SingleRun /\ TriggersIdle /\ WorkerIdle

SpecGated == InitGated /\ [][Next]_vars

---------------------------------------------------------------------------
(* Runs of WorkflowExecutor.execute on short workflows, the workflow       *)
(* without steps among them: execute takes any WorkflowDefinition, and the *)
(* type allows an empty steps array                                       *)

MaxShortSteps == 2

ShortWorkflows ==
    {[id |-> "wf1",
      steps |-> [i \in 1..n |->
                   StepOfKind("http", StepIds[i],
                              IF i = 1 THEN policy ELSE Undef, Undef)],
      errorHandling |-> eh] :
        n \in 0..MaxShortSteps, policy \in {Undef, RetryTwice},
        eh \in ErrorHandlings}

InitShort ==
    /\ caller = "execute" /\ pc = "idle"
    /\ workflow \in ShortWorkflows
    /\ wfInput \in WorkflowInputs
    /\ emitter = "ok"
    /\ execution = NoExecution /\ stepIdx = 0 /\ emitted = <<>>
    /\ emitThrew = "" /\ started = <<>>
    /\ RunnerIdle /\ ResolverIdle /\ SingleRun /\ TriggersIdle /\ WorkerIdle

SpecShort == InitShort /\ [][Next]_vars

---------------------------------------------------------------------------
(* Properties of WorkflowExecutor.execute *)

StepIdsOf(wf, n) == [i \in 1..n |-> wf.steps[i].id]

TraceIds(exec) == [i \in 1..Len(exec.stepExecutions) |-> exec.stepExecutions[i].stepId]

\* The indexes of the failed records of the trace.
FailedAt(exec) ==
    {i \in 1..Len(exec.stepExecutions) : exec.stepExecutions[i].status = "failed"}

\* Every dependsOn of the workflow is absent or an array, as its type says.
WellTyped(wf) ==
    \A i \in 1..Len(wf.steps) : wf.steps[i].dependsOn.t \in {"undef", "arr"}

\* C1: Stop semantics.  When onError is absent or 'stop' and step k is the
\* first step whose executeWithRetry result is 'failed', the trace holds
\* exactly the records of steps 1..k in order, no step after k is ever started
\* and the returned execution is 'failed' with error.stepId = step k's id.
C1_StopSemantics ==
    (caller = "execute" /\ OnError(workflow) = "stop" /\ FailedAt(execution) # {}) =>
        LET k == CHOOSE i \in FailedAt(execution) : \A j \in FailedAt(execution) : i <= j
        IN  /\ Len(execution.stepExecutions) = k
            /\ TraceIds(execution) = StepIdsOf(workflow, k)
            /\ started = StepIdsOf(workflow, k)
            /\ pc \in {"finalize", "finally", "returned"}
            /\ execution.status = "failed"
            /\ execution.error.v["stepId"] = Str(<<workflow.steps[k].id>>)
            /\ execution.error.v["message"] =
                  Str(<<"Step ", workflow.steps[k].id, " failed">>)
            /\ execution.error.v["details"] = execution.stepExecutions[k].error

\* A returned run under the default policy whose second of three steps failed.
C1_Witness ==
    /\ caller = "execute" /\ pc = "returned"
    /\ workflow.errorHandling = Undef
    /\ Len(workflow.steps) = 3
    /\ Len(execution.stepExecutions) = 2
    /\ execution.stepExecutions[1].status = "completed"
    /\ execution.stepExecutions[2].status = "failed"
    /\ execution.status = "failed"

\* C2: Continue semantics.  When onError is 'continue' or 'retry', every step
\* is run in definition order whatever failed before, and the returned
\* execution has one StepExecution per step, status 'completed' and no
\* workflow-level error.
C2_ContinueSemantics ==
    (/\ caller = "execute" /\ pc = "returned"
     /\ OnError(workflow) \in {"continue", "retry"}
     /\ WellTyped(workflow)) =>
        /\ TraceIds(execution) = StepIdsOf(workflow, Len(workflow.steps))
        /\ started = StepIdsOf(workflow, Len(workflow.steps))
        /\ execution.status = "completed"
        /\ execution.error = Undef

\* A returned run under 'retry' in which all three steps failed.
C2_Witness ==
    /\ caller = "execute" /\ pc = "returned"
    /\ OnError(workflow) = "retry"
    /\ Len(workflow.steps) = 3
    /\ FailedAt(execution) = {1, 2, 3}
    /\ execution.status = "completed"

\* C3: execute never rejects.  Whatever the workflow, the input and the
\* connectors do, also when computing a step's input throws, the call does
\* not reject, and the execution it returns has status 'completed' or 'failed'
\* and its completedAt set.
C3_NeverRejects ==
    caller = "execute" =>
        /\ pc # "rejected"
        /\ pc = "returned" =>
              /\ execution.status \in {"completed", "failed"}
              /\ execution.completedAt = Date

\* A returned run in which getStepInput threw on the second step.
C3_Witness ==
    /\ caller = "execute" /\ pc = "returned"
    /\ Len(execution.stepExecutions) = 1
    /\ ~WellTyped(workflow)
    /\ execution.status = "failed"
    /\ execution.error.v["message"] = Str(<<"step.dependsOn is not iterable">>)
    /\ execution.completedAt = Date

\* C4: Emission failures never abort execution.  When the emitter's emit
\* throws, execute does not reject, runs the steps it would run otherwise and
\* records no workflow-level error for the emitter's failure.
C4_EmissionNeverAborts ==
    (caller = "execute" /\ emitThrew # "") =>
        /\ pc # "rejected"
        /\ execution.error = Undef \/ "stepId" \in DOMAIN execution.error.v

---------------------------------------------------------------------------
(* Properties of StepRunner.executeWithRetry *)

\* maxAttempts as the retry policy gives it, 1 when the step has none.
ConfiguredAttempts(step) ==
    IF step.retryPolicy.t = "obj" /\ "maxAttempts" \in DOMAIN step.retryPolicy.v
    THEN step.retryPolicy.v["maxAttempts"].v
    ELSE 1

\* C5: Retry exhaustion.  When every attempt of a step fails and maxAttempts
\* is N >= 1 (1 without a retry policy), executeWithRetry makes exactly N
\* single attempts and returns a 'failed' StepExecution with attempts = N.
C5_RetryExhaustion ==
    (/\ caller = "direct" /\ pc = "returned"
     /\ ConfiguredAttempts(curStep) >= 1
     /\ lastExecution.status # "completed") =>
        /\ calls = ConfiguredAttempts(curStep)
        /\ lastExecution.status = "failed"
        /\ lastExecution.attempts = ConfiguredAttempts(curStep)

\* Three failed attempts of a step with maxAttempts 3, delayMs 10, multiplier 1.
C5_Witness ==
    /\ caller = "direct" /\ pc = "returned"
    /\ curStep.retryPolicy = RetryPolicy(Num(3), Num(10), Num(1))
    /\ calls = 3
    /\ lastExecution.status = "failed"
    /\ lastExecution.attempts = 3

\* C6: Retry short-circuit.  Once attempt k completes, executeWithRetry
\* returns that StepExecution with attempts = k: k attempts were made, only
\* the k - 1 waits between them, and no attempt or wait follows.
C6_RetryShortCircuit ==
    (caller = "direct" /\ calls > 0 /\ lastExecution.status = "completed") =>
        /\ pc \in {"retdone", "returned"}
        /\ lastExecution.attempts = calls
        /\ calls <= ConfiguredAttempts(curStep) \/ calls = 1
        /\ Len(waits) = calls - 1

\* A step that fails on attempt 1 and completes on attempt 2 of 3.
C6_Witness ==
    /\ caller = "direct" /\ pc = "returned"
    /\ ConfiguredAttempts(curStep) = 3
    /\ lastExecution.status = "completed"
    /\ lastExecution.attempts = 2
    /\ calls = 2
    /\ Len(waits) = 1

---------------------------------------------------------------------------
(* Properties of the step input *)

Max(S) == CHOOSE x \in S : \A y \in S : y <= x

\* The dependsOn list of a step, empty when it has none.
DepsOf(step) == IF step.dependsOn.t = "arr" THEN step.dependsOn.v ELSE <<>>

\* The recorded output of step id in the trace, the empty map when the trace
\* holds no output of it.
RecordedOutput(exec, id) ==
    LET S == {i \in 1..Len(exec.stepExecutions) :
                 /\ exec.stepExecutions[i].stepId = id
                 /\ exec.stepExecutions[i].output.t = "obj"}
    IN  IF S = {} THEN EmptyMap ELSE exec.stepExecutions[Max(S)].output.v

\* The workflow input overlaid, in list order, with the recorded outputs of
\* deps, key by key: the last listed dependency that has the key gives it.
Overlay(exec, deps, workflowInput) ==
    LET providers(k) == {j \in 1..Len(deps) : k \in DOMAIN RecordedOutput(exec, deps[j])}
        keys == DOMAIN workflowInput
                  \cup UNION {DOMAIN RecordedOutput(exec, deps[j]) : j \in 1..Len(deps)}
    IN  [k \in keys |->
            IF providers(k) # {}
            THEN RecordedOutput(exec, deps[Max(providers(k))])[k]
            ELSE workflowInput[k]]

\* execute has just handed a step to executeWithRetry.
StepJustStarted == caller = "execute" /\ pc = "attempt" /\ calls = 0

\* C7: Dependency merge.  The input passed to a step is the workflow input
\* overlaid, in dependsOn order, with the recorded output of each listed
\* dependency (a later one overrides an earlier one, any of them overrides the
\* workflow input); without dependsOn it is the workflow input.
C7_DependencyMerge ==
    StepJustStarted =>
        /\ curStep = workflow.steps[stepIdx]
        /\ curInput = Overlay(execution, DepsOf(curStep), wfInput)
        /\ DepsOf(curStep) = <<>> => curInput = wfInput

\* The third step depends on s2 and s1, in this order; both completed, and
\* the workflow input has a key "data" as their outputs have.
C7_Witness ==
    /\ StepJustStarted
    /\ stepIdx = 3
    /\ curStep.dependsOn = Arr(<<"s2", "s1">>)
    /\ execution.stepExecutions[1].status = "completed"
    /\ execution.stepExecutions[2].status = "completed"
    /\ wfInput = Map2("data", Num(0), "y", Num(2))
    /\ curInput = Map2("data", Str(<<"s1">>), "y", Num(2))

\* C8: dependsOn gates execution.  A step is never started before every step
\* of the workflow that its dependsOn lists has a 'completed' StepExecution
\* in the trace.
C8_DependsOnGates ==
    StepJustStarted =>
        \A j \in 1..Len(DepsOf(curStep)) :
            (\E i \in 1..Len(workflow.steps) :
                 i # stepIdx /\ workflow.steps[i].id = DepsOf(curStep)[j]) =>
            \E i \in 1..Len(execution.stepExecutions) :
                 /\ execution.stepExecutions[i].stepId = DepsOf(curStep)[j]
                 /\ execution.stepExecutions[i].status = "completed"

\* C9: Parameters are wired by the executor.  In a run of execute, a connector
\* is called with the step's input overlaid with the step's parameters,
\* resolved against the workflow input and the outputs recorded so far; the
\* javascript step that gets its script and context from parameters completes
\* with data {sum: 5}.
C9_ParametersWired ==
    (/\ caller = "execute" /\ pc = "retdone"
     /\ Truthy(curStep.parameters)
     /\ CallsConnector(curStep, Undef)) =>
        /\ connInputs # <<>>
        /\ connInputs[Len(connInputs)] =
              Spread(curInput,
                     resolve(curStep.parameters.v, buildContext(wfInput, execution)))
        /\ curStep.parameters = SumParameters =>
              /\ lastExecution.status = "completed"
              /\ lastExecution.output = Obj(Map1("data", Obj(Map1("sum", Num(5)))))

---------------------------------------------------------------------------
(* Properties of ParameterResolver.resolve *)

\* What a piece of a template becomes: text stays, a token becomes the string
\* form of its reference's value, or stays as written when that is undefined.
ExpectedPiece(p, ctx) ==
    IF p.kind = "lit" THEN p.text
    ELSE LET value == resolveReference(p.text, ctx)
         IN  IF value.t = "undef" THEN PieceText(p) ELSE String(value)

RECURSIVE ExpectedText(_, _)
ExpectedText(ps, ctx) ==
    IF ps = <<>> THEN <<>>
    ELSE ExpectedPiece(Head(ps), ctx) \o ExpectedText(Tail(ps), ctx)

\* The tokens of the template are its token pieces: no stray "${" in front of
\* a token makes the two one longer token.
TokensArePieces == pieces # <<>> /\ pieces[1] # Lit(<<"$", "{">>)

\* References the spec names as undefined: an unknown namespace, a step id
\* with no recorded output, and any key of an empty input or environment.
NamedUndefined(path, ctx) ==
    LET parts == Split(path) IN
    \/ parts[1] \notin {<<"workflow">>, <<"steps">>, <<"env">>}
    \/ /\ parts[1] = <<"steps">> /\ Len(parts) >= 2 /\ IsWord(parts[2])
       /\ parts[2][1] \notin DOMAIN ctx.stepExecutions
    \/ /\ ctx = EmptyContext
       /\ Len(parts) >= 3 \/ parts[1] = <<"env">>

RECURSIVE SameShape(_, _)
\* b has the shape of a: the same keys in every object, the same length in
\* every array, position by position; a string where a has a string, and the
\* very value of a where a has a number, a boolean, null or undefined.
SameShape(a, b) ==
    /\ a.t = b.t
    /\ CASE a.t = "obj" -> /\ DOMAIN a.v = DOMAIN b.v
                           /\ \A k \in DOMAIN a.v : SameShape(a.v[k], b.v[k])
         [] a.t = "arr" -> /\ Len(a.v) = Len(b.v)
                           /\ \A i \in 1..Len(a.v) : SameShape(a.v[i], b.v[i])
         [] a.t = "str" -> TRUE
         [] OTHER -> a.v = b.v

\* C11: resolve preserves the shape of its argument.  The result has the
\* same keys at every nesting level and arrays of the same length and order;
\* numbers, booleans and null come back unchanged; only strings can differ.
C11_ShapePreserved ==
    (caller = "resolve" /\ pc = "returned") =>
        SameShape(Obj(parameters), Obj(resolved))

\* Nested parameters whose strings were all rewritten while the number, the
\* null and the boolean beside them stayed.
C11_Witness ==
    /\ caller = "resolve" /\ pc = "returned"
    /\ context = RichContext
    /\ parameters = ParamsDeep(<<"$", "{", "env", ".", "k", "}",
                                 "$", "{", "workflow", ".", "input", ".", "k", "}",
                                 "!">>)
    /\ resolved["msg"] = Str(<<"e", "v", "!">>)
    /\ resolved["o"] = Obj(Map2("in", Arr(<<Str(<<"e", "v", "!">>), Num(1), Null>>),
                                "b", Bool(FALSE)))

---------------------------------------------------------------------------
(* Properties of StepRunner.executeStep *)

\* C13: Errors never propagate out of executeStep.  Whatever the step type,
\* the config, the input and the connector do, and also when resolving the
\* parameters throws, the attempt ends in a StepExecution that is 'completed'
\* or 'failed', has an error exactly when it is 'failed', and has completedAt.
C13_ErrorsCaptured ==
    (caller = "direct" /\ calls > 0) =>
        /\ lastExecution.status \in {"completed", "failed"}
        /\ lastExecution.error # Undef <=> lastExecution.status = "failed"
        /\ lastExecution.completedAt = Date

\* An attempt in which resolving the parameters threw: the step failed with
\* the TypeError's message and the connector was never called.
C13_Witness ==
    /\ caller = "direct" /\ pc = "returned"
    /\ curPctx.t = "plainctx"
    /\ curStep.parameters = RefParameters
    /\ lastExecution.status = "failed"
    /\ lastExecution.error.v["message"] =
          Str(<<"context", ".", "stepExecutions", ".", "get is not a function">>)
    /\ lastExecution.completedAt = Date
    /\ connInputs = <<>>

\* The code an error record carries, at its top level or in its details.
CodesOf(error) ==
    {Get(error.v, "code")}
      \cup (IF Get(error.v, "details").t = "obj"
            THEN {Get(error.v["details"].v, "code")} ELSE {})

\* C14: Connector lookup failure is a coded step failure.  A connector step
\* whose connectorType names no registered connector ends in a 'failed'
\* StepExecution whose error carries the code CONNECTOR_NOT_FOUND.
C14_LookupFailureCoded ==
    (/\ caller = "direct" /\ calls > 0
     /\ curStep.type = "connector"
     /\ ~ResolutionThrows(curStep, curPctx)
     /\ ConnectorTypeOf(ResolvedConfig(curStep, curPctx)) \notin RegisteredConnectors) =>
        /\ lastExecution.status = "failed"
        /\ Str(<<"CONNECTOR_NOT_FOUND">>) \in CodesOf(lastExecution.error)

\* The message of a failed StepExecution.
MessageOf(se) == se.error.v["message"]

\* The message the connector gives when it answers success:false or throws.
ConnectorMessage(step, outcome) ==
    ExternalExecute(step.id, outcome).error.v["message"]

\* C15: success=false is treated as a thrown exception.  Whether the
\* connector answers success:false or throws, the attempt is a 'failed'
\* StepExecution that carries the connector's message and differs from the
\* other only in its error record, the retry loop goes on in the same way, and
\* the attempt is never recorded as 'completed'.
C15_FailureLikeThrow ==
    /\ (/\ caller = "direct" /\ pc = "attempt"
        /\ OutcomesFor(curStep) = Outcomes
        /\ ~ResolutionThrows(curStep, curPctx)) =>
          LET f == executeStep(curStep, curInput, curPctx, "fail")
              t == executeStep(curStep, curInput, curPctx, "throw")
              maxAttempts == PolicyField(curStep, "maxAttempts", DefaultMaxAttempts)
          IN  /\ f.status = "failed" /\ t.status = "failed"
              /\ MessageOf(f) = ConnectorMessage(curStep, "fail")
              /\ MessageOf(t) = ConnectorMessage(curStep, "throw")
              /\ [f EXCEPT !.error = Undef] = [t EXCEPT !.error = Undef]
              /\ AfterAttempt(f, attempt, maxAttempts) = AfterAttempt(t, attempt, maxAttempts)
    /\ (/\ caller = "direct" /\ pc = "returned"
        /\ OutcomesFor(curStep) = Outcomes
        /\ lastExecution.status = "completed") =>
          lastExecution.output = Obj(Map1("data", ExternalExecute(curStep.id, "ok").data))

\* A connector that answered success:false twice under maxAttempts 2: the
\* step was retried once and ended 'failed' with the connector's message.
C15_Witness ==
    /\ caller = "direct" /\ pc = "returned"
    /\ ConfiguredAttempts(curStep) = 2
    /\ calls = 2 /\ Len(waits) = 1
    /\ lastExecution.status = "failed"
    /\ MessageOf(lastExecution) = ConnectorMessage(curStep, "fail")

---------------------------------------------------------------------------
(* Properties of the execution record and of the events *)

\* C16: The workflow-level error is set only on a stop or an uncaught
\* exception.  A returned execution has an error exactly when it is 'failed':
\* either a step failed under 'stop' (the error names that step) or the try
\* block threw; under 'continue' failed steps leave no workflow-level error
\* and stay recorded in their own entries.
C16_ErrorIffFailed ==
    (caller = "execute" /\ pc = "returned") =>
        /\ execution.error # Undef <=> execution.status = "failed"
        /\ execution.error # Undef =>
              \/ /\ "stepId" \in DOMAIN execution.error.v
                 /\ OnError(workflow) = "stop"
                 /\ Len(execution.stepExecutions) \in FailedAt(execution)
              \/ /\ "stepId" \notin DOMAIN execution.error.v
                 /\ ~WellTyped(workflow)
        /\ (OnError(workflow) # "stop" /\ WellTyped(workflow)) =>
              /\ execution.error = Undef
              /\ \A i \in FailedAt(execution) : execution.stepExecutions[i].error # Undef

\* A returned run under 'continue' whose first and last of three steps failed.
C16_Witness ==
    /\ caller = "execute" /\ pc = "returned"
    /\ OnError(workflow) = "continue"
    /\ FailedAt(execution) = {1, 3}
    /\ execution.status = "completed"
    /\ execution.error = Undef
    /\ execution.stepExecutions[3].error # Undef

RECURSIVE StepEvents(_)
\* step.started and step.completed, by name and step id, for each of ids.
StepEvents(ids) ==
    IF ids = <<>> THEN <<>>
    ELSE <<<<"step.started", Head(ids)>>, <<"step.completed", Head(ids)>>>>
           \o StepEvents(Tail(ids))

\* C17: Lifecycle event order.  With an emitter that does not throw, a run
\* emits execution.started, then for each step it runs, in order, step.started
\* and step.completed of that step, the latter with the step's StepExecution
\* once the trace holds it, and last exactly one execution.completed; no
\* step.started follows a stop.
C17_EventOrder ==
    (caller = "execute" /\ pc = "returned" /\ WellTyped(workflow)) =>
        LET n == Len(execution.stepExecutions) IN
        /\ [i \in 1..Len(emitted) |-> <<emitted[i].name, emitted[i].stepId>>] =
              <<<<"execution.started", "">>>>
                \o StepEvents(TraceIds(execution))
                \o <<<<"execution.completed", "">>>>
        /\ TraceIds(execution) = StepIdsOf(workflow, n)
        /\ \A k \in 1..n :
              /\ emitted[2 * k + 1].stepExecution = execution.stepExecutions[k]
              /\ emitted[2 * k + 1].execution.stepExecutions =
                    SubSeq(execution.stepExecutions, 1, k)
              /\ emitted[2 * k].execution.stepExecutions =
                    SubSeq(execution.stepExecutions, 1, k - 1)
        /\ emitted[1].execution.status = "running"
        /\ emitted[Len(emitted)].execution = execution
        /\ (OnError(workflow) = "stop" /\ FailedAt(execution) # {}) =>
              n \in FailedAt(execution)

\* A run of three steps stopped by the failure of the second: six events,
\* none for the third step.
C17_Witness ==
    /\ caller = "execute" /\ pc = "returned"
    /\ Len(workflow.steps) = 3
    /\ FailedAt(execution) = {2}
    /\ Len(emitted) = 6
    /\ emitted[4].name = "step.started" /\ emitted[4].stepId = "s2"
    /\ emitted[5].name = "step.completed"
    /\ emitted[5].stepExecution.status = "failed"
    /\ emitted[6].name = "execution.completed"

\* The last StepExecution of a trace that is not empty.
LastOf(exec) == exec.stepExecutions[Len(exec.stepExecutions)]

\* C18 as claimed: Final output.  A 'completed' execution has the output
\* of the last StepExecution of its trace, a 'failed' one has none.
C18_FinalOutput ==
    (caller = "execute" /\ pc = "returned") =>
        /\ execution.status = "completed" =>
              /\ execution.stepExecutions # <<>>
              /\ execution.output = LastOf(execution).output
        /\ execution.status = "failed" => execution.output = Undef

\* C18: Final output.  A 'completed' execution has the output of the last
\* StepExecution of its trace when that one has an output and the empty
\* object when it has none; it is never a merge of several outputs or the
\* output of an earlier step.  A 'failed' execution has no output.
C18_FinalOutputOrEmpty ==
    (caller = "execute" /\ pc = "returned") =>
        /\ execution.status = "completed" =>
              /\ execution.stepExecutions # <<>>
              /\ execution.output =
                    IF LastOf(execution).output # Undef
                    THEN LastOf(execution).output ELSE EmptyObj
        /\ execution.status = "failed" => execution.output = Undef

\* A completed run of three steps whose outputs differ: the execution has
\* the third one's.
C18_Witness ==
    /\ caller = "execute" /\ pc = "returned"
    /\ execution.status = "completed"
    /\ Len(execution.stepExecutions) = 3
    /\ FailedAt(execution) = {}
    /\ execution.output = execution.stepExecutions[3].output
    /\ execution.output # execution.stepExecutions[1].output
    /\ execution.output # execution.stepExecutions[2].output

---------------------------------------------------------------------------
(* Properties of concurrent calls of execute *)

RECURSIVE SoloRetry(_, _, _)
\* The StepExecutions executeWithRetry(step, input) can return from its
\* n-th attempt on, one for each way the outside world can answer.
SoloRetry(step, input, n) ==
    LET maxAttempts == PolicyField(step, "maxAttempts", DefaultMaxAttempts) IN
    UNION {LET se == [executeStep(step, input, Undef, o) EXCEPT !.attempts = n]
           IN  IF AfterAttempt(se, n, maxAttempts) = "sleep"
               THEN SoloRetry(step, input, n + 1)
               ELSE {se} : o \in OutcomesFor(step)}

RECURSIVE SoloLoop(_, _, _, _)
\* The executions a call of execute that runs alone can have after its try
\* block, from the i-th step on.
SoloLoop(wf, input, exec, i) ==
    IF i > Len(wf.steps)
    THEN {[exec EXCEPT !.status = "completed", !.output = buildOutput(exec)]}
    ELSE LET step == wf.steps[i] IN
         IF getStepInputThrows(step)
         THEN {Caught(exec, <<"step.dependsOn is not iterable">>)}
         ELSE UNION {LET pushed == [exec EXCEPT !.stepExecutions = Append(@, se)]
                     IN  IF ShouldStop(se, wf)
                         THEN {[pushed EXCEPT
                                  !.status = "failed",
                                  !.error = Obj([k \in {"message", "stepId", "details"} |->
                                      CASE k = "message" ->
                                               Str(<<"Step ", step.id, " failed">>)
                                        [] k = "stepId" -> Str(<<step.id>>)
                                        [] OTHER -> se.error])]}
                         ELSE SoloLoop(wf, input, pushed, i + 1) :
                     se \in SoloRetry(step, getStepInput(exec, step, input), 1)}

\* The executions a call execute(wf, input) can return when no other call
\* runs on the executor.
SoloExecutions(wf, input) ==
    {[e EXCEPT !.completedAt = Date] :
        e \in SoloLoop(wf, input,
                       [status |-> "running", input |-> Obj(input),
                        stepExecutions |-> <<>>, output |-> Undef,
                        error |-> Undef, completedAt |-> Undef], 1)}

\* The executions a single call returns are those of SoloExecutions.
SoloExecutionsAreSingleRuns ==
    (current = 0 /\ caller = "execute" /\ emitter = "ok" /\ pc = "returned")
        => execution \in SoloExecutions(workflow, wfInput)

\* The two concurrent calls, by their local variables.
Runs == {Locals, parked}

\* C19: whatever the interleaving of two execute calls on one executor, the
\* execution each of them returns (status, step trace, output, error) is one
\* the same call returns when it runs alone, and at no moment does the trace
\* of one call hold a StepExecution of the other (the calls have different
\* inputs, so that their StepExecutions differ).
C19_RunsIndependent ==
    current # 0 =>
        /\ \A r \in Runs :
             r.pc = "returned" => r.execution \in SoloExecutions(r.workflow, r.wfInput)
        /\ \A r \in Runs :
             \A i \in 1..Len(r.execution.stepExecutions) :
                r.execution.stepExecutions[i].input = Obj(r.wfInput)
        /\ \A i \in 1..Len(execution.stepExecutions) :
             \A j \in 1..Len(parked.execution.stepExecutions) :
                execution.stepExecutions[i] # parked.execution.stepExecutions[j]

\* Both calls have returned after running interleaved: the one stopped at its
\* failed first step, the other ran its two steps and completed.
C19_Witness ==
    /\ current # 0
    /\ pc = "returned" /\ parked.pc = "returned"
    /\ parked.execution.status = "failed"
    /\ Len(parked.execution.stepExecutions) = 1
    /\ Len(parked.workflow.steps) = 2
    /\ execution.status = "completed"
    /\ Len(execution.stepExecutions) = 2
    /\ execution.stepExecutions[1].status = "completed"


\* The delay before the retry that follows the i-th attempt of `step`:
\* delayMs * backoffMultiplier^(i-1), both from the step's retryPolicy.
OwnDelay(step, i) ==
    PolicyField(step, "delayMs", DefaultDelayMs)
      * PolicyField(step, "backoffMultiplier", DefaultBackoffMultiplier) ^ (i - 1)

\* C20: a call that waits between two attempts leaves the thread to the
\* other call whenever that one has something to do; a call waits only after
\* a failed attempt of its own current step, so that a call whose attempts
\* all succeed never waits; and every delay a call sleeps is delayMs *
\* backoffMultiplier^(i-1) of the retryPolicy of the step it is retrying.
C20_WaitsDoNotBlock ==
    current # 0 =>
        /\ (pc = "sleep" /\ parked.pc # "returned") => ENABLED Switch
        /\ \A r \in Runs :
             /\ r.waits # <<>> =>
                   /\ r.lastExecution # Null
                   /\ r.lastExecution.stepId = r.curStep.id
                   /\ r.lastExecution.status = "failed" \/ r.lastExecution.attempts > 1
                   /\ r.lastExecution.input = Obj(r.wfInput)
             /\ \A i \in 1..Len(r.waits) : r.waits[i] = OwnDelay(r.curStep, i)
             /\ r.pc = "sleep" => r.currentDelay = OwnDelay(r.curStep, Len(r.waits) + 1)

\* One call is still waiting before the third attempt of its first step,
\* having slept 10 ms once, while the other call, which has a policy of its
\* own (5 ms), was resumed in that wait and has returned with both its steps
\* completed at the first attempt.
C20_Witness ==
    /\ current # 0
    /\ parked.pc = "sleep" /\ parked.waits = <<10>> /\ parked.currentDelay = 20
    /\ parked.execution.stepExecutions = <<>>
    /\ pc = "returned" /\ execution.status = "completed"
    /\ PolicyField(workflow.steps[1], "delayMs", DefaultDelayMs) = 5
    /\ Len(execution.stepExecutions) = 2
    /\ \A i \in 1..2 : /\ execution.stepExecutions[i].status = "completed"
                       /\ execution.stepExecutions[i].attempts = 1

---------------------------------------------------------------------------
(* Properties of ParameterResolver.buildContext *)

\* The positions of the trace whose record has step id `id` and an output.
WithOutput(exec, id) ==
    {i \in 1..Len(exec.stepExecutions) :
        /\ exec.stepExecutions[i].stepId = id
        /\ exec.stepExecutions[i].output.t # "undef"}

\* C21: the step-output map buildContext returns has an entry for a step id
\* exactly when some StepExecution of the trace with that id has a defined
\* output (an empty object counts, a failed record without output does
\* not), the entry is the output of the last such record, and workflowInput
\* is the workflow input that was given.
C21_ContextExposesOutputs ==
    (caller = "buildContext" /\ pc = "returned") =>
        /\ \A id \in {"s1", "s2", "zz"} :
             id \in DOMAIN context.stepExecutions <=> WithOutput(execution, id) # {}
        /\ \A id \in DOMAIN context.stepExecutions :
             context.stepExecutions[id] =
                execution.stepExecutions[Max(WithOutput(execution, id))].output
        /\ context.workflowInput = wfInput

\* buildContext has returned for a trace in which s1 completed with an
\* output and s2 failed without one: s1 has its entry, s2 has none.
C21_Witness ==
    /\ caller = "buildContext" /\ pc = "returned"
    /\ Len(execution.stepExecutions) = 2
    /\ execution.stepExecutions[1] =
          TraceRecord("s1", Obj(Map1("result", Str(<<"success">>))))
    /\ execution.stepExecutions[2] = TraceRecord("s2", Undef)
    /\ DOMAIN context.stepExecutions = {"s1"}
    /\ wfInput # EmptyMap


---------------------------------------------------------------------------
(* Properties of the trigger handlers *)

\* The request's method is the configured one, POST when none is
\* configured, whatever the case of its letters.
MethodMatches(method, config) ==
    toUpperCase(method) =
       toUpperCase(IF "method" \in DOMAIN config THEN config["method"].v[1] ELSE "POST")

\* The credential a request presents for an authentication block: the value
\* of the named header (X-Webhook-Secret when none is named) for 'secret',
\* what follows the scheme in the Authorization header for 'bearer', and
\* that, decoded, for 'basic'; Undef when the header is missing or has not
\* the scheme.
Credential(headers, authConfig) ==
    LET type == authConfig["type"].v[1]
        name == IF "headerName" \in DOMAIN authConfig
                THEN authConfig["headerName"].v[1] ELSE "X-Webhook-Secret"
        authorization == FirstOf(Get(headers, "authorization"))
    IN  CASE type = "secret" ->
               IF Truthy(Get(headers, toLowerCase(name)))
               THEN Get(headers, toLowerCase(name)) ELSE Undef
          [] type = "bearer" ->
               IF authorization.t = "str" /\ StartsWith(authorization.v, "Bearer ")
               THEN Str(Tail(authorization.v)) ELSE Undef
          [] OTHER ->
               IF authorization.t = "str" /\ StartsWith(authorization.v, "Basic ")
               THEN Str(Base64Decode(Tail(authorization.v))) ELSE Undef

\* The configured authentication passes: there is none, its type is 'none',
\* or the request presents a credential, which is the configured secret
\* when one is configured.
AuthenticationPasses(headers, config) ==
    \/ "authentication" \notin DOMAIN config
    \/ config["authentication"].v["type"] = Str(<<"none">>)
    \/ LET authConfig == config["authentication"].v
           credential == Credential(headers, authConfig)
       IN  /\ credential.t # "undef"
           /\ "secret" \in DOMAIN authConfig => credential = authConfig["secret"]

\* C22: a call of handleWebhook invokes the execution callback, once, with
\* the id of the workflow registered at the path and with the request body,
\* when the path is registered, the method is the configured one and the
\* configured authentication passes (and a callback is set); what it then
\* resolves to names that workflow.  In every other case it rejects and the
\* callback is not invoked.
C22_WebhookGated ==
    [][(caller = "webhook" /\ handled' # handled) =>
         LET path == request'.path
             gate == /\ path \in DOMAIN registrations
                     /\ MethodMatches(request'.method, registrations[path].config)
                     /\ AuthenticationPasses(request'.headers, registrations[path].config)
                     /\ callback = "set"
         IN  IF gate
             THEN /\ invoked' = Append(invoked,
                                       [workflowId |-> registrations[path].workflowId,
                                        input |-> request'.body])
                  /\ ~response'.rejected =>
                        response'.value.workflowId = registrations[path].workflowId
             ELSE /\ invoked' = invoked
                  /\ response'.rejected]_vars

\* A request with the right secret, in lower-case method, was served for
\* wfA, registered without a slash and with secret authentication: the
\* callback was invoked once with wfA and the body.
C22_Witness ==
    /\ caller = "webhook" /\ handled = 1
    /\ <<"/", "hook">> \in DOMAIN registrations
    /\ Get(registrations[<<"/", "hook">>].config, "authentication").t = "obj"
    /\ request.method = "post"
    /\ ~response.rejected
    /\ invoked = <<[workflowId |-> "wfA", input |-> Map1("test", Str(<<"data">>))]>>


\* A registration is for the event: its eventType is the event's type, its
\* source, if it has one, is the event's source, and each of its filters is
\* equal (===: a string or number by value, an object to nothing but itself)
\* to the event's data at the filter's key.
IsFor(registration, event) ==
    LET config == registration.config IN
    /\ config["eventType"] = Str(<<event.eventType>>)
    /\ ("source" \in DOMAIN config /\ config["source"].v # <<>>)
          => event.source = config["source"]
    /\ "filters" \in DOMAIN config =>
          \A key \in DOMAIN config["filters"].v :
             /\ config["filters"].v[key].t \notin {"obj", "arr"}
             /\ Get(event.data, key) = config["filters"].v[key]

\* What the callback is invoked with for each of the registrations, in order.
InvocationsFor(regs, event) ==
    [i \in 1..Len(regs) |-> [workflowId |-> regs[i].workflowId,
                             input |-> Payload(event)]]

RECURSIVE JobIdsOf(_, _)
\* The job ids of the invocations that the callback accepted, in order.
JobIdsOf(invocations, accepted) ==
    IF invocations = <<>> THEN <<>>
    ELSE (IF Head(accepted)
          THEN <<Str(<<"job-", Head(invocations).workflowId, "-123">>)>> ELSE <<>>)
         \o JobIdsOf(Tail(invocations), Tail(accepted))

\* C23: when publishEvent has returned, and a callback was set when it was
\* called, the callback has been invoked once for each registration that is
\* for the event (IsFor) and for no other, in registration order, and the
\* call returns the job ids of the invocations that resolved, in that order.
\* The registrations are those the handler held at the call when none was
\* added or removed during it, and those of the array the loop went over
\* otherwise.  Without a callback nothing is invoked and no job id returned.
C23_EventsDispatched ==
    (caller = "event" /\ handled = 1) =>
        LET event == request.event
            all == IF request.disturbed THEN request.regs
                   ELSE RegistrationsOf("user.created") \o RegistrationsOf("order.placed")
            expected == SelectSeq(all, LAMBDA r : IsFor(r, event))
        IN  /\ request.callbackAtCall = "set" =>
                  invoked = InvocationsFor(expected, event)
            /\ callback = "unset" => invoked = <<>>
            /\ Len(request.accepted) = Len(invoked)
            /\ response = Resolved(Arr(JobIdsOf(invoked, request.accepted)))

\* publishEvent has returned for a user.created event of admin-service, with
\* wfA registered first for the source auth-service and wfB second without
\* a source: the callback was invoked for wfB alone, and its job id returned.
C23_Witness ==
    /\ caller = "event" /\ handled = 1
    /\ ~request.disturbed
    /\ Len(RegistrationsOf("user.created")) = 2
    /\ RegistrationsOf("user.created")[1].workflowId = "wfA"
    /\ "source" \in DOMAIN RegistrationsOf("user.created")[1].config
    /\ request.event.source = Str(<<"admin-service">>)
    /\ Len(invoked) = 1 /\ invoked[1].workflowId = "wfB"
    /\ response = Resolved(Arr(<<Str(<<"job-", "wfB", "-123">>)>>))

---------------------------------------------------------------------------
(* Properties of the worker *)

\* The steps of the job's run are being executed.
StepsRunning == pc \in {"loop", "attempt", "sleep", "retdone"}

\* C24: An execution is persisted once, and only when terminal.  For the
\* execute job, create is called at most once, and exactly once when the job
\* has completed; every record of the repository is a 'completed' or 'failed'
\* execution; no record exists while steps are being executed; and no record
\* is created when the workflow id is not found.
C24_PersistedOnce ==
    job # Undef =>
        /\ job.creates <= 1
        /\ Len(repository) <= 1
        /\ job.stage = "completed" => job.creates = 1
        /\ \A i \in 1..Len(repository) :
             repository[i].status \in {"completed", "failed"}
        /\ StepsRunning => repository = <<>>
        /\ ~job.found => (job.creates = 0 /\ repository = <<>>)

---------------------------------------------------------------------------
(* Further properties of WorkflowExecutor.execute *)

\* A step is in executeWithRetry: started, its StepExecution not yet pushed.
InRetry == pc \in {"attempt", "sleep", "retdone"}

\* C25: One record per started step, in definition order.  At every point of
\* a run the recorded StepExecutions carry the ids of the first steps of the
\* definition, in order; the started steps are the recorded ones plus, while
\* executeWithRetry is under way, the one next step; every started step has
\* exactly one record once its retry loop has returned it, however many
\* attempts were made; and every record is 'completed' or 'failed'.
C25_OneRecordPerStartedStep ==
    caller = "execute" =>
        LET n == Len(execution.stepExecutions) IN
        /\ n <= Len(workflow.steps)
        /\ TraceIds(execution) = StepIdsOf(workflow, n)
        /\ started = StepIdsOf(workflow, Len(started))
        /\ Len(started) = IF InRetry THEN n + 1 ELSE n
        /\ \A i \in 1..n :
             /\ execution.stepExecutions[i].status \in {"completed", "failed"}
             /\ execution.stepExecutions[i].attempts >= 1

\* A returned run of three steps whose first step took two attempts: three
\* records, one for each step.
C25_Witness ==
    /\ caller = "execute" /\ pc = "returned"
    /\ Len(workflow.steps) = 3
    /\ Len(execution.stepExecutions) = 3
    /\ execution.stepExecutions[1].attempts = 2
    /\ execution.stepExecutions[2].status = "failed"
    /\ started = <<"s1", "s2", "s3">>

\* The trace holds an output of step id.
HasOutput(exec, id) ==
    \E i \in 1..Len(exec.stepExecutions) :
        /\ exec.stepExecutions[i].stepId = id
        /\ exec.stepExecutions[i].output.t = "obj"

\* The dependencies of the list that have a recorded output, in list order.
WithRecordedOutput(exec, deps) ==
    SelectSeq(deps, LAMBDA id : HasOutput(exec, id))

\* A dependency of the step has no recorded output: it failed, it is listed
\* later in the steps array (or is the step itself), or it is no step at all.
MissingDependency(exec, step) ==
    \E j \in 1..Len(DepsOf(step)) : ~HasOutput(exec, DepsOf(step)[j])

\* The loop is about to take up a step that has a missing dependency.
AtStepWithMissingDependency ==
    /\ caller = "execute" /\ pc = "loop"
    /\ stepIdx <= Len(workflow.steps)
    /\ WellTyped(workflow)
    /\ MissingDependency(execution, workflow.steps[stepIdx])

\* The StepExecutions executeStep can give for the step on this input.
RecordsOf(step, input) ==
    {executeStep(step, input, Undef, outcome) : outcome \in OutcomesFor(step)}

---------------------------------------------------------------------------
(* Further properties of StepRunner.executeWithRetry *)

\* A field of the step's retry policy as it is configured, `default` when the
\* step has no policy or the policy has no such field.
Configured(step, field, default) ==
    IF step.retryPolicy.t = "obj" /\ field \in DOMAIN step.retryPolicy.v
    THEN step.retryPolicy.v[field].v
    ELSE default

\* The retry policy is absent or one RetryPolicySchema accepts where it has
\* the field: maxAttempts >= 1, delayMs >= 0, backoffMultiplier >= 1.
PolicyAccepted(step) ==
    /\ Configured(step, "maxAttempts", 1) >= 1
    /\ Configured(step, "delayMs", 0) >= 0
    /\ Configured(step, "backoffMultiplier", 1) >= 1

\* C27: Retry defaults apply only to absent fields.  The first wait is the
\* configured delayMs whenever one is given, also when it is 0, and 1000 only
\* when it is absent; every further wait is the one before times the
\* configured backoffMultiplier, 1 when absent; and no more attempts are made
\* than the configured maxAttempts, 1 when absent.
C27_DefaultsOnlyWhenAbsent ==
    (caller = "direct" /\ PolicyAccepted(curStep)) =>
        /\ waits # <<>> => waits[1] = Configured(curStep, "delayMs", 1000)
        /\ \A k \in 2..Len(waits) :
             waits[k] = waits[k - 1] * Configured(curStep, "backoffMultiplier", 1)
        /\ calls <= Configured(curStep, "maxAttempts", 1)

RECURSIVE Power(_, _)
Power(b, n) == IF n = 0 THEN 1 ELSE b * Power(b, n - 1)

\* The delay, the multiplier and the number of attempts executeWithRetry
\* works with for the step.
DelayOf(step) == PolicyField(step, "delayMs", DefaultDelayMs)
MultiplierOf(step) == PolicyField(step, "backoffMultiplier", DefaultBackoffMultiplier)
AttemptsOf(step) == PolicyField(step, "maxAttempts", DefaultMaxAttempts)

\* C28: Backoff schedule.  With delay d and multiplier b, the wait between
\* failed attempt k and attempt k+1 is d * b^(k-1), and there is one only for
\* k < maxAttempts: after k attempts there have been k - 1 waits (k once the
\* wait before attempt k+1 is over), so N failed attempts of N make exactly
\* N - 1 waits and none follows the last attempt.
C28_BackoffSchedule ==
    (caller = "direct" /\ pc # "idle") =>
        /\ \A k \in 1..Len(waits) :
             waits[k] = DelayOf(curStep) * Power(MultiplierOf(curStep), k - 1)
        /\ Len(waits) < AttemptsOf(curStep) \/ waits = <<>>
        /\ pc = "attempt" => Len(waits) = calls
        /\ (pc # "attempt" /\ calls > 0) => Len(waits) = calls - 1
        /\ (pc = "returned" /\ lastExecution # Null
            /\ lastExecution.status = "failed") =>
              /\ calls = AttemptsOf(curStep)
              /\ Len(waits) = AttemptsOf(curStep) - 1

\* Three failed attempts with delayMs 10 and multiplier 2: waits of 10 and 20.
C28_Witness ==
    /\ caller = "direct" /\ pc = "returned"
    /\ curStep.retryPolicy = RetryPolicy(Num(3), Num(10), Num(2))
    /\ calls = 3
    /\ lastExecution.status = "failed"
    /\ waits = <<10, 20>>

\* The step types the switch of executeStep has a case for.
SupportedTypes == {"connector", "transformer", "condition"}

\* C29: Unsupported step types fail and are still retried.  A step whose type
\* is not connector, transformer or condition never reaches a connector,
\* every attempt of it is a 'failed' StepExecution with the message
\* "Unsupported step type: <type>", and executeWithRetry makes all maxAttempts
\* attempts, with the waits between them, before it returns the failed record.
C29_UnsupportedTypeRetried ==
    (/\ caller = "direct"
     /\ curStep.type \notin SupportedTypes
     /\ ConfiguredAttempts(curStep) >= 1) =>
        /\ connInputs = <<>>
        /\ calls > 0 =>
             /\ lastExecution.status = "failed"
             /\ MessageOf(lastExecution) =
                   Str(<<"Unsupported step type: ", curStep.type>>)
             /\ lastExecution.attempts = calls
        /\ pc \in {"retdone", "returned"} =>
             /\ calls = ConfiguredAttempts(curStep)
             /\ Len(waits) = calls - 1
             /\ \A k \in 1..Len(waits) :
                  waits[k] = DelayOf(curStep) * Power(MultiplierOf(curStep), k - 1)

\* A 'parallel' step with maxAttempts 3: three failed attempts, two waits, no
\* connector call.
C29_Witness ==
    /\ caller = "direct" /\ pc = "returned"
    /\ curStep.type = "parallel"
    /\ Configured(curStep, "maxAttempts", 1) = 3
    /\ calls = 3 /\ Len(waits) = 2
    /\ lastExecution.status = "failed"
    /\ lastExecution.attempts = 3
    /\ connInputs = <<>>

\* The parameters of the step resolved against the context, when the step
\* has parameters and a parameterContext is supplied; no key otherwise.
EffectiveParameters(step, pctx) ==
    IF step.parameters.t = "obj" /\ pctx # Undef
    THEN resolve(step.parameters.v, pctx.v)
    ELSE EmptyMap

\* The input with the parameters laid over it, key by key.
HandedInput(step, input, pctx) ==
    LET ps == EffectiveParameters(step, pctx) IN
    [k \in DOMAIN input \cup DOMAIN ps |->
        IF k \in DOMAIN ps THEN ps[k] ELSE input[k]]

\* The config handed on: as given without a parameterContext.
HandedConfig(step, pctx) ==
    IF pctx = Undef THEN step.config ELSE resolve(step.config, pctx.v)

\* C30: Parameter precedence in executeStep.  With a parameterContext and
\* parameters, the handler of the step (connector, transformer or condition)
\* works on the step input overlaid with the resolved parameters: a parameter
\* overrides the input key of its name, the other input keys are kept.
\* Without a parameterContext it works on the config and the input as they
\* are given, whatever the parameters.  The StepExecution records the input
\* as given.
C30_ParameterPrecedence ==
    (/\ caller = "direct" /\ calls > 0
     /\ ~ResolutionThrows(curStep, curPctx)) =>
        LET handed == HandedInput(curStep, curInput, curPctx)
            config == HandedConfig(curStep, curPctx)
        IN  /\ (curStep.type = "connector"
                /\ ConnectorTypeOf(config) \in RegisteredConnectors) =>
                  /\ Len(connInputs) = calls
                  /\ \A i \in 1..calls : connInputs[i] = handed
            /\ curStep.type = "transformer" =>
                  \/ lastExecution.status = "failed"
                  \/ lastExecution.output = executeTransformer(config, handed).output
            /\ curStep.type = "condition" =>
                  lastExecution.output = executeCondition(config, handed).output
            /\ curPctx = Undef => handed = curInput /\ config = curStep.config
            /\ lastExecution.input = Obj(curInput)

\* A transformer step with parameters and a parameterContext, called with an
\* input that has a key `code` as the parameters have, and a key `y` of its
\* own: the transformer read the parameter's code.
C30_Witness ==
    /\ caller = "direct" /\ pc = "returned"
    /\ curStep.type = "transformer"
    /\ curStep.parameters = SumParameters
    /\ curPctx.t = "ctx"
    /\ curInput = Map2("code", Str(ThrowCode), "y", Num(2))
    /\ HandedInput(curStep, curInput, curPctx)["y"] = Num(2)
    /\ HandedInput(curStep, curInput, curPctx)["code"] = Str(SumCode)
    /\ lastExecution.status = "completed"
    /\ lastExecution.output = Obj(Map1("out", Str(SumCode)))

---------------------------------------------------------------------------
(* Further properties of ParameterResolver.resolve *)

\* The segments of a dotted path of words: the words between its dots.
Segments(path) == [i \in 1..((Len(path) + 1) \div 2) |-> path[2 * i - 1]]

RECURSIVE Lookup(_, _, _)
\* The value reached from `value` along the names from position i on:
\* a key of an object, an index or the length of an array; undefined where a
\* name leads nowhere.
Lookup(value, names, i) ==
    IF i > Len(names) THEN value
    ELSE CASE value.t = "obj" ->
                 IF names[i] \in DOMAIN value.v
                 THEN Lookup(value.v[names[i]], names, i + 1) ELSE Undef
           [] value.t = "arr" ->
                 IF names[i] = "length" THEN Lookup(Num(Len(value.v)), names, i + 1)
                 ELSE IF \E j \in 1..Len(value.v) : ToString(j - 1) = names[i]
                 THEN Lookup(value.v[CHOOSE j \in 1..Len(value.v) :
                                        ToString(j - 1) = names[i]], names, i + 1)
                 ELSE Undef
           [] OTHER -> Undef

\* The reference names a namespace as the grammar has them.
InWorkflowInput(segs) == Len(segs) >= 2 /\ segs[1] = "workflow" /\ segs[2] = "input"
InStepOutput(segs, ctx) ==
    Len(segs) >= 2 /\ segs[1] = "steps" /\ segs[2] \in DOMAIN ctx.stepExecutions
InEnv(segs) == Len(segs) = 2 /\ segs[1] = "env"

\* The value of a reference by the grammar of the three namespaces.
GrammarValue(path, ctx) ==
    LET segs == Segments(path) IN
    CASE InWorkflowInput(segs) -> Lookup(Obj(ctx.workflowInput), segs, 3)
      [] InStepOutput(segs, ctx) -> Lookup(ctx.stepExecutions[segs[2]], segs, 3)
      [] InEnv(segs) -> IF segs[2] \in DOMAIN ctx.env THEN ctx.env[segs[2]] ELSE Undef
      [] OTHER -> Undef

\* What the token becomes when its reference has this value.
Substituted(token, value) ==
    IF value = Undef THEN PieceText(token) ELSE String(value)

\* C31: Reference grammar.  The token of a resolved string is replaced by the
\* string form of the value its path has in one of the three namespaces:
\* workflow.input.<rest> and steps.<stepId>.<rest> by nested lookup, env.<NAME>
\* with exactly one segment after env.  A path with another first segment,
\* env with no or several following segments, and a step id without recorded
\* output have no value: the token stays as written.
C31_ReferenceGrammar ==
    (caller = "resolve" /\ pc = "returned" /\ TokensArePieces) =>
        LET token == pieces[2]
            segs == Segments(token.text)
            text == ExpectedPiece(pieces[1], context)
                      \o Substituted(token, GrammarValue(token.text, context))
                      \o ExpectedPiece(pieces[3], context)
        IN  /\ resolved["msg"] = Str(text)
            /\ (\/ segs[1] \notin {"workflow", "steps", "env"}
                \/ segs[1] = "env" /\ Len(segs) # 2
                \/ /\ segs[1] = "steps" /\ Len(segs) >= 2
                   /\ segs[2] \notin DOMAIN context.stepExecutions) =>
                  resolved["msg"] =
                      Str(ExpectedPiece(pieces[1], context) \o PieceText(token)
                            \o ExpectedPiece(pieces[3], context))

\* "x=${env.k.k}${workflow.input.k}" in the rich context: env with two
\* segments after it stays, the input field is substituted.
C31_Witness ==
    /\ caller = "resolve" /\ pc = "returned"
    /\ context = RichContext
    /\ pieces = <<Lit(<<"x=">>), Tok(<<"env", ".", "k", ".", "k">>),
                  Tok(<<"workflow", ".", "input", ".", "k">>)>>
    /\ resolved["msg"] =
          Str(<<"x=", "$", "{", "env", ".", "k", ".", "k", "}", "v">>)

\* The template is one token and nothing else.
SingleToken ==
    /\ pieces[1] = Lit(<<>>) /\ pieces[2].kind = "tok" /\ pieces[3] = Lit(<<>>)

---------------------------------------------------------------------------
(* Properties of condition steps *)

\* The value of the top-level input field a condition names, undefined when
\* the input has no key of that very name.
FieldValue(condition, input) ==
    LET name == condition.v["field"].v IN
    IF Len(name) = 1 /\ name[1] \in DOMAIN input THEN input[name[1]] ELSE Undef

\* The same primitive value.
SamePrimitive(a, b) == a.t = b.t /\ a.t \in {"num", "str", "bool"} /\ a.v = b.v

\* The string form of b occurs in the string form of a.
Occurs(a, b) ==
    LET x == String(a)
        y == String(b)
    IN  \E i \in 1..(Len(x) - Len(y) + 1) :
            \A j \in 1..Len(y) : x[i + j - 1] = y[j]

\* The predicate {field, operator, value} on the input; true for an operator
\* other than eq, ne, gt, lt and contains.
PredicateHolds(condition, input) ==
    LET fieldValue == FieldValue(condition, input)
        operator == condition.v["operator"].v[1]
        value == condition.v["value"]
    IN  CASE operator = "eq" -> SamePrimitive(fieldValue, value)
          [] operator = "ne" -> ~SamePrimitive(fieldValue, value)
          [] operator = "gt" ->
                fieldValue.t = "num" /\ value.t = "num" /\ fieldValue.v > value.v
          [] operator = "lt" ->
                fieldValue.t = "num" /\ value.t = "num" /\ fieldValue.v < value.v
          [] operator = "contains" -> Occurs(fieldValue, value)
          [] OTHER -> TRUE

\* The condition of the step, undefined when its config has none.
ConditionOf(step) == Get(step.config, "condition")

\* C33: Condition evaluation.  A condition step completes with the output
\* {conditionMet: b}: b is what the {field, operator, value} predicate gives on
\* the top-level input field for eq, ne, gt, lt and contains, and b is true
\* when there is no condition or the operator is another one, gte and lte
\* included.
C33_ConditionEvaluation ==
    (caller = "direct" /\ calls > 0 /\ curStep.type = "condition"
     /\ curPctx = Undef) =>
        LET condition == ConditionOf(curStep)
            b == IF condition.t = "obj" THEN PredicateHolds(condition, curInput)
                 ELSE TRUE
        IN  /\ lastExecution.status = "completed"
            /\ lastExecution.output = Obj(Map1("conditionMet", Bool(b)))
            /\ (condition.t = "obj"
                /\ condition.v["operator"].v[1] \in {"gte", "lte", "matches"}) =>
                  lastExecution.output = Obj(Map1("conditionMet", Bool(TRUE)))

\* The condition x gte 5 on an input whose x is 3: conditionMet is true.
C33_Witness ==
    /\ caller = "direct" /\ pc = "returned"
    /\ ConditionOf(curStep).t = "obj"
    /\ ConditionOf(curStep).v["operator"] = Str(<<"gte">>)
    /\ ConditionOf(curStep).v["field"] = Str(<<"x">>)
    /\ ConditionOf(curStep).v["value"] = Num(5)
    /\ curInput["x"] = Num(3)
    /\ lastExecution.status = "completed"
    /\ lastExecution.output = Obj(Map1("conditionMet", Bool(TRUE)))

\* The StepExecution is that of a condition that was not met.
Unmet(stepExecution) ==
    stepExecution.output = Obj(Map1("conditionMet", Bool(FALSE)))

\* executeWithRetry has returned the record of a condition that was not met.
UnmetReturned ==
    /\ caller = "execute" /\ pc = "retdone"
    /\ curStep.type = "condition"
    /\ Unmet(lastExecution)

\* C34: A condition never gates later steps.  The record of a condition step
\* is 'completed' whatever conditionMet is; once a condition that is not met
\* has been recorded the loop goes on to the next step with the execution
\* still running; a run in which no step failed has a record for every step,
\* those that depend on the condition included; and no record is ever
\* 'skipped' or 'pending'.
C34_ConditionNeverGates ==
    /\ [](caller = "execute" =>
            /\ \A i \in 1..Len(execution.stepExecutions) :
                 LET se == execution.stepExecutions[i] IN
                 /\ se.status \in {"completed", "failed"}
                 /\ workflow.steps[i].type = "condition" => se.status = "completed"
            /\ (pc = "returned" /\ FailedAt(execution) = {}) =>
                 /\ TraceIds(execution) = StepIdsOf(workflow, Len(workflow.steps))
                 /\ execution.status = "completed")
    /\ [][UnmetReturned =>
            /\ pc' = "loop"
            /\ stepIdx' = stepIdx + 1
            /\ execution'.status = "running"
            /\ execution'.stepExecutions =
                  Append(execution.stepExecutions, lastExecution)]_vars

\* A returned run whose first step is a condition that was not met and whose
\* second step depends on it: all three steps have a completed record.
C34_Witness ==
    /\ caller = "execute" /\ pc = "returned"
    /\ workflow.steps[1].type = "condition"
    /\ workflow.steps[2].dependsOn = Arr(<<"s1">>)
    /\ Len(execution.stepExecutions) = 3
    /\ Unmet(execution.stepExecutions[1])
    /\ execution.stepExecutions[1].status = "completed"
    /\ execution.stepExecutions[2].status = "completed"
    /\ execution.stepExecutions[3].status = "completed"
    /\ execution.status = "completed"

\* The trace ends in a StepExecution without output, or is empty.
NoLastOutput(exec) ==
    \/ exec.stepExecutions = <<>>
    \/ exec.stepExecutions[Len(exec.stepExecutions)].output = Undef

\* C35: Empty output fallback.  A completed run whose last StepExecution has
\* no output, or whose trace is empty, has the empty object as its output,
\* whatever earlier steps put out; a run that returns with its last step
\* failed under 'continue' or 'retry', and the run of a workflow without
\* steps, are completed runs of that kind.
C35_EmptyOutputFallback ==
    (caller = "execute" /\ pc = "returned") =>
        /\ (execution.status = "completed" /\ NoLastOutput(execution)) =>
              execution.output = EmptyObj
        /\ workflow.steps = <<>> =>
              /\ execution.status = "completed"
              /\ execution.stepExecutions = <<>>
              /\ execution.output = EmptyObj
        /\ (/\ OnError(workflow) \in {"continue", "retry"}
            /\ execution.stepExecutions # <<>>
            /\ Len(execution.stepExecutions) \in FailedAt(execution)) =>
              /\ execution.status = "completed"
              /\ execution.output = EmptyObj

\* A completed run under 'continue' whose first step put out data and whose
\* second and last step failed: the output is empty.
C35_Witness ==
    /\ caller = "execute" /\ pc = "returned"
    /\ OnError(workflow) = "continue"
    /\ Len(execution.stepExecutions) = 2
    /\ execution.stepExecutions[1].status = "completed"
    /\ execution.stepExecutions[1].output.t = "obj"
    /\ execution.stepExecutions[2].status = "failed"
    /\ execution.status = "completed"
    /\ execution.output = EmptyObj

\* The string holds the text of a ${...} token.
HoldsToken(str) ==
    \E i \in 1..Len(str) : \E j \in (i + 3)..Len(str) :
        str[i] = "$" /\ str[i + 1] = "{" /\ str[j] = "}"

\* C36: Resolution is single-pass.  When the value a token refers to is a
\* string that itself holds the text of a ${...} token, that text stands in
\* the resolved string as it is, between what the pieces around the token
\* became: the substituted value is not scanned again.
C36_SinglePass ==
    (caller = "resolve" /\ pc = "returned" /\ TokensArePieces) =>
        LET value == GrammarValue(pieces[2].text, context) IN
        (value.t = "str" /\ HoldsToken(value.v)) =>
            /\ resolved["msg"] =
                  Str(ExpectedPiece(pieces[1], context) \o value.v
                        \o ExpectedPiece(pieces[3], context))
            /\ "o" \in DOMAIN resolved =>
                  resolved["o"].v["in"].v[1] = resolved["msg"]

\* "x=${workflow.input.steps}!", where the input field holds "${env.k}" and
\* env.k is "e": the result holds "${env.k}", not "e".
C36_Witness ==
    /\ caller = "resolve" /\ pc = "returned"
    /\ context = RichContext
    /\ pieces = <<Lit(<<"x=">>), Tok(<<"workflow", ".", "input", ".", "steps">>),
                  Lit(<<"!">>)>>
    /\ context.env["k"] = Str(<<"e">>)
    /\ resolved["msg"] = Str(<<"x=", "$", "{", "env", ".", "k", "}", "!">>)

---------------------------------------------------------------------------
(* Frame of WorkflowExecutor.execute *)

\* The run has begun: execute has built its WorkflowExecution.
Begun == caller = "execute" /\ pc \notin {"idle", "queued"}

---------------------------------------------------------------------------
(* Failures of the callback in EventHandler.publishEvent *)

\* The registrations of the array the loop went over that are for the event.
Matching == SelectSeq(request.regs, LAMBDA r : IsFor(r, request.event))

\* The callback was refused for one of the invocations.
SomeRefused == \E i \in 1..Len(request.accepted) : ~request.accepted[i]

\* C38: a failing callback, or none, does not end the dispatch.  When
\* publishEvent has returned it has resolved, never rejected; with a callback
\* set, every registration that is for the event was triggered, those after
\* a refused one included, and the list returned holds the job ids of the
\* registrations whose invocation resolved and of no other; with no callback
\* set nothing is triggered and the list is empty.
C38_FailuresIsolated ==
    (caller = "event" /\ handled = 1) =>
        /\ ~response.rejected
        /\ response.value.t = "arr"
        /\ request.callbackAtCall = "set" =>
              /\ Len(invoked) = Len(Matching)
              /\ Len(request.accepted) = Len(Matching)
              /\ \A i \in 1..Len(Matching) :
                    invoked[i].workflowId = Matching[i].workflowId
              /\ \A id \in {"wfA", "wfB"} :
                    (\E k \in 1..Len(response.value.v) :
                        response.value.v[k] = Str(<<"job-", id, "-123">>))
                    <=> (\E i \in 1..Len(Matching) :
                            Matching[i].workflowId = id /\ request.accepted[i])
              /\ Len(response.value.v) =
                    Cardinality({i \in 1..Len(Matching) : request.accepted[i]})
        /\ request.callbackAtCall = "unset" =>
              (invoked = <<>> /\ response = Resolved(Arr(<<>>)))

\* publishEvent has returned for an event that two registrations are for:
\* the callback was refused for the first, wfA, and resolved for the second,
\* wfB, whose job id alone is returned.
C38_Witness ==
    /\ caller = "event" /\ handled = 1
    /\ Len(Matching) = 2
    /\ Matching[1].workflowId = "wfA" /\ Matching[2].workflowId = "wfB"
    /\ request.accepted = <<FALSE, TRUE>>
    /\ Len(invoked) = 2
    /\ response = Resolved(Arr(<<Str(<<"job-", "wfB", "-123">>)>>))

---------------------------------------------------------------------------
(* unregisterWorkflow of the trigger handlers *)

\* The Map of the WebhookHandler holds a registration of the workflow.
HoldsWebhookOf(regs, workflowId) ==
    \E path \in DOMAIN regs : regs[path].workflowId = workflowId

\* An array of the EventHandler's Map holds a registration of the workflow.
HoldsEventOf(regs, workflowId) ==
    \E eventType \in DOMAIN regs :
       \E i \in 1..Len(regs[eventType]) :
          regs[eventType][i].workflowId = workflowId

\* C39: unregistering is complete.  After any history of registerWorkflow
\* and unregisterWorkflow calls on the WebhookHandler, a call of
\* unregisterWorkflow(w) leaves the handler with no registration whose
\* workflowId is w, and with the registrations of the other workflows as
\* they were.
C39_UnregisterComplete ==
    [][\A w \in {"wfA", "wfB"} :
          unregisterWorkflow(w) =>
             /\ ~HoldsWebhookOf(registrations', w)
             /\ \A path \in DOMAIN registrations :
                   registrations[path].workflowId # w =>
                      /\ path \in DOMAIN registrations'
                      /\ registrations'[path] = registrations[path]]_vars

\* The same of the EventHandler, whose unregisterWorkflow filters the array
\* of every event type.
EventUnregisterComplete ==
    [][\A w \in {"wfA", "wfB"} :
          unregisterEventWorkflow(w) =>
             /\ ~HoldsEventOf(registrations', w)
             /\ \A eventType \in DOMAIN registrations :
                   FilterOut(registrations[eventType], w) # <<>> =>
                      /\ eventType \in DOMAIN registrations'
                      /\ registrations'[eventType]
                            = FilterOut(registrations[eventType], w)]_vars

\* The WebhookHandler holds wfB at two paths.
TwoPathsOfOneWorkflow ==
    /\ caller = "webhook"
    /\ Len(pathOrder) = 2
    /\ \A path \in DOMAIN registrations : registrations[path].workflowId = "wfB"

=============================================================================
